---- MODULE Spec2Model ----
(***************************************************************************)
(* A model of the OpenQuizzer quiz engine (class OpenQuizzer and the       *)
(* module-private helpers it uses).  One engine instance is modelled: its  *)
(* private fields are the variables, every public method is one action.    *)
(*                                                                         *)
(* Conventions                                                             *)
(*  - JavaScript arrays are 0-based, TLA+ sequences 1-based: indices kept  *)
(*    in the state (currentIndex, twoStageIndex, option indices, ordering  *)
(*    indices) are the 0-based JavaScript values; element i of an array is *)
(*    s[i + 1].                                                            *)
(*  - A handler is a function from engine records to engine records.  A    *)
(*    TypeError raised by the JavaScript (a property read on undefined, a  *)
(*    spread of a non-iterable) sets the field threw and stops the handler *)
(*    where it stands: what was assigned before the throw stays assigned.  *)
(*  - emitted holds the events the last call emitted, in order, each with  *)
(*    the engine state a listener reading the getters would see at that    *)
(*    moment (seen).  delivered holds the listener invocations of the last *)
(*    call, in order.                                                      *)
(***************************************************************************)
EXTENDS Integers, Sequences, FiniteSets, TLC

VARIABLES
    state,                \* #state
    listeners,            \* #listeners: event name -> registered functions
    typeWeights,          \* #typeWeights (in quarters)   
    problems,             \* #problems: the session's question sequence (ids)
    allProblems,          \* #allProblems: the pool given to loadProblems
    maxProblems,          \* #maxProblems
    currentIndex,         \* #currentIndex
    answers,              \* #answers
    context,              \* #context
    problemTracking,      \* #problemTracking
    answered,             \* #answered
    multiSelectSelected,  \* #multiSelectSelected (a Set: insertion ordered)
    orderingOrder,        \* #orderingOrder
    twoStageIndex,        \* #twoStageIndex
    twoStageAnswers,      \* #twoStageAnswers
    emitted,              \* events emitted by the last call
    delivered,            \* listener invocations made by the last call
    threw,                \* whether the last call ended in a TypeError
    tags,                 \* question id -> the tags array of that question object
    shared,               \* the private fields that hold an object of the caller
    caller,               \* the array and the context object the caller keeps
    sessions,             \* the stored session summaries (the history)
    trackingMap,          \* the stored per-problem tracking map
    imported,             \* the value the import flow is given
    report                \* what validateSessionSummary returned for it

engineVars == << state, listeners, typeWeights, problems, allProblems, maxProblems,
                 currentIndex, answers, context, problemTracking, answered,
                 multiSelectSelected, orderingOrder, twoStageIndex, twoStageAnswers,
                 emitted, delivered, threw, tags, shared, caller >>

\* what the application keeps outside the engine
appVars == << sessions, trackingMap, imported, report >>

vars == << engineVars, appVars >>

-----------------------------------------------------------------------------
(* Bounds of the model *)

\* Largest number of questions in a pool given to loadProblems.
MaxPool == 2

\* Largest session-length cap given to loadProblems (0 = unlimited).
MaxCap == 1

\* Largest answer log: a call that may append a record is made while the log
\* is shorter (skip() and timeout() can append to it without end when the
\* session cannot complete).
MaxAnswers == 3

\* Largest number of listeners registered for one event name.
MaxListeners == 2

\* Longest tags array of a question: a caller pushes a tag while the arrays
\* are shorter.
MaxTags == 3

\* Longest array a caller keeps: it pushes a question while the array is
\* shorter.
MaxCallerLen == 3

\* Largest number of stored session summaries: one is appended while the
\* history is shorter.
MaxSessions == 3

\* the stored tracking map is updated while every seen count is below this
MaxSeen == 2

-----------------------------------------------------------------------------
(* Sequence helpers *)

Range(s) == { s[i] : i \in DOMAIN s }

\* array.slice(0, n)
Slice(s, n) == SubSeq(s, 1, IF n < Len(s) THEN n ELSE Len(s))

\* array.splice(i, 1) on a 0-based index i within range: the array without it
RemoveAt(s, i) == SubSeq(s, 1, i) \o SubSeq(s, i + 2, Len(s))

\* array.splice(i, 0, x) on a 0-based index i <= length
InsertAt(s, i, x) == SubSeq(s, 1, i) \o << x >> \o SubSeq(s, i + 1, Len(s))

\* array.filter(pred) for pred = "differs from x"
RECURSIVE FilterOut(_, _)
FilterOut(s, x) ==
    IF s = << >> THEN << >>
    ELSE IF Head(s) = x THEN FilterOut(Tail(s), x)
         ELSE << Head(s) >> \o FilterOut(Tail(s), x)

\* Array.prototype.sort() on an array of single-digit indices: the default
\* comparison is by string, which for 0..9 is the numeric order.
RECURSIVE SortIndices(_)
SortIndices(s) ==
    IF s = << >> THEN << >>
    ELSE LET m == CHOOSE x \in Range(s) : \A y \in Range(s) : x <= y
         IN  << m >> \o SortIndices(FilterOut(s, m))

RECURSIVE SumSeq(_)
SumSeq(s) == IF s = << >> THEN 0 ELSE Head(s) + SumSeq(Tail(s))

\* Math.round((c / t) * 100) for integers 0 <= c, 0 < t: round half up
RoundPercent(c, t) == (200 * c + t) \div (2 * t)

-----------------------------------------------------------------------------
(* JavaScript numbers: exact rationals n/d (d > 0, lowest terms) or NaN.   *)
(* Rounding of the binary floating point is not modelled.                  *)

Abs(x) == IF x < 0 THEN -x ELSE x

RECURSIVE Gcd(_, _)
Gcd(a, b) == IF b = 0 THEN a ELSE Gcd(b, a % b)

NaN == [ nan |-> TRUE, n |-> 0, d |-> 1 ]

Num(n, d) ==
    LET g == Gcd(Abs(n), d)
    IN  [ nan |-> FALSE, n |-> n \div g, d |-> d \div g ]

\* the value of a missing property (problem.answer of a non-numeric question)
UndefinedNum == [ nan |-> TRUE, n |-> 0, d |-> 0 ]

IsNaN(x) == x.nan

\* a === b on numbers
NumEq(a, b) == ~a.nan /\ ~b.nan /\ a.n * b.d = b.n * a.d

NumTimes(a, k) == IF a.nan THEN NaN ELSE Num(a.n * k, a.d)

Digits == << "0", "1", "2", "3", "4", "5", "6", "7", "8", "9" >>

IsDigit(c) == c \in Range(Digits)

DigitValue(c) == (CHOOSE i \in DOMAIN Digits : Digits[i] = c) - 1

\* the longest prefix of s made of digits
RECURSIVE DigitPrefix(_)
DigitPrefix(s) ==
    IF s # << >> /\ IsDigit(Head(s))
    THEN << Head(s) >> \o DigitPrefix(Tail(s))
    ELSE << >>

RECURSIVE DigitsValue(_, _)
DigitsValue(s, acc) ==
    IF s = << >> THEN acc ELSE DigitsValue(Tail(s), 10 * acc + DigitValue(Head(s)))

RECURSIVE Pow10(_)
Pow10(k) == IF k = 0 THEN 1 ELSE 10 * Pow10(k - 1)

\* parseFloat(s) for s over digits, sign, point and letters (no exponent
\* notation, no "Infinity"): the longest numeric prefix, NaN when it holds no
\* digit.
parseFloat(s) ==
    LET neg  == s # << >> /\ Head(s) = "-"
        body == IF s # << >> /\ Head(s) \in { "-", "+" } THEN Tail(s) ELSE s
        ip   == DigitPrefix(body)
        rest == SubSeq(body, Len(ip) + 1, Len(body))
        fp   == IF rest # << >> /\ Head(rest) = "."
                THEN DigitPrefix(Tail(rest)) ELSE << >>
        mag  == DigitsValue(ip \o fp, 0)
    IN  IF ip = << >> /\ fp = << >> THEN NaN
        ELSE Num(IF neg THEN -mag ELSE mag, Pow10(Len(fp)))

\* String.prototype.toLowerCase on the letters the inputs use
ToLower(c) ==
    CASE c = "K" -> "k" [] c = "M" -> "m" [] c = "B" -> "b" [] c = "T" -> "t"
      [] OTHER -> c

IsSpace(c) == c = " "

\* input.replace(/[,\s]/g, "").toLowerCase()
RECURSIVE Clean(_)
Clean(s) ==
    IF s = << >> THEN << >>
    ELSE IF Head(s) = "," \/ IsSpace(Head(s)) THEN Clean(Tail(s))
         ELSE << ToLower(Head(s)) >> \o Clean(Tail(s))

\* String.prototype.trim
RECURSIVE TrimLeft(_)
TrimLeft(s) == IF s # << >> /\ IsSpace(Head(s)) THEN TrimLeft(Tail(s)) ELSE s

RECURSIVE TrimRight(_)
TrimRight(s) ==
    IF s # << >> /\ IsSpace(s[Len(s)]) THEN TrimRight(SubSeq(s, 1, Len(s) - 1))
    ELSE s

Trim(s) == TrimRight(TrimLeft(s))

\* const suffixes = { k: 1e3, m: 1e6, b: 1e9, t: 1e12 }, as powers of ten
Suffixes == << [ suffix |-> "k", exp |-> 3 ],
               [ suffix |-> "m", exp |-> 6 ],
               [ suffix |-> "b", exp |-> 9 ],
               [ suffix |-> "t", exp |-> 12 ] >>

parseNumericInput(input) ==
    LET cleaned == Clean(input)
        hits    == { i \in DOMAIN Suffixes :
                       cleaned # << >> /\ cleaned[Len(cleaned)] = Suffixes[i].suffix }
    IN  IF hits # { }
        THEN LET i == CHOOSE j \in hits : \A k \in hits : j <= k
             IN  NumTimes(parseFloat(SubSeq(cleaned, 1, Len(cleaned) - 1)),
                          Pow10(Suffixes[i].exp))
        ELSE parseFloat(cleaned)

\* Math.abs(userValue - correctValue) / correctValue <= tn/td, for numbers u
\* and c with c # 0, by cross-multiplication (the sign of c is kept: the code
\* divides by correctValue, not by its absolute value).
RelDiffAtMost(u, c, tn, td) ==
    LET x   == Abs(u.n * c.d - c.n * u.d)     \* |u - c| * u.d * c.d
        den == u.d * c.n                      \* sign of the divisor
    IN  IF den > 0 THEN x * td <= tn * den
        ELSE x * td >= tn * den

\* ratio > 0.1 && ratio < 10: the open interval
RatioInDecadeOpen(u, c) ==
    LET num == u.n * c.d
        den == u.d * c.n
    IN  IF den > 0 THEN 10 * num > den /\ num < 10 * den
        ELSE 10 * num < den /\ num > 10 * den

\* ratio >= 0.1 && ratio <= 10 for ratio = u / c, c # 0
RatioInDecade(u, c) ==
    LET num == u.n * c.d
        den == u.d * c.n
    IN  IF den > 0 THEN 10 * num >= den /\ num <= 10 * den
        ELSE 10 * num <= den /\ num >= 10 * den

\* checkNumericAnswer without its test "correctValue === 0": with
\* correctValue 0 the quotients are NaN or an infinity, for which no
\* comparison of the tolerance branches holds, and "exact" compares with 0
checkNumericAnswerDividing(userValue, correctValue, tolerance) ==
    IF IsNaN(userValue) \/ IsNaN(correctValue) THEN FALSE
    ELSE IF correctValue.n = 0
    THEN tolerance.kind = "exact" /\ userValue.n = 0
    ELSE IF tolerance.kind = "order-of-magnitude"
    THEN RatioInDecade(userValue, correctValue)
    ELSE IF tolerance.kind = "exact"
    THEN NumEq(userValue, correctValue)
    ELSE IF tolerance.kind = "fraction"
    THEN RelDiffAtMost(userValue, correctValue, tolerance.n, tolerance.d)
    ELSE RelDiffAtMost(userValue, correctValue, 1, 2)

\* tolerance: [kind |-> "order-of-magnitude" | "exact" | "fraction" (n/d) |
\* "undefined"]; correctValue: a number, or UndefinedNum when the question
\* has no answer property (every comparison with NaN is false).
checkNumericAnswer(userValue, correctValue, tolerance) ==
    IF IsNaN(userValue) THEN FALSE
    ELSE IF ~IsNaN(correctValue) /\ correctValue.n = 0
    THEN userValue.n = 0
    ELSE IF IsNaN(correctValue) THEN FALSE
    ELSE IF tolerance.kind = "order-of-magnitude"
    THEN RatioInDecade(userValue, correctValue)
    ELSE IF tolerance.kind = "exact"
    THEN NumEq(userValue, correctValue)
    ELSE IF tolerance.kind = "fraction"
    THEN RelDiffAtMost(userValue, correctValue, tolerance.n, tolerance.d)
    ELSE RelDiffAtMost(userValue, correctValue, 1, 2)

\* what the user types into a numeric field
NumericInputs ==
    { << >>, << " ", " " >>, << "a", "b", "c" >>, << "1", "K" >>,
      << "1", ",", "1", "0", "0" >>, << "2", "0", "0", "0" >> }

-----------------------------------------------------------------------------
(* The question records the model loads: the fixtures of the test suite *)

Null == "null"

mcProblem(id) ==
    [ id |-> id, type |-> "multiple-choice", question |-> "MC",
      options |-> << "A", "B", "C", "D" >>, correct |-> 1 ]

numericProblem(id) ==
    [ id |-> id, type |-> "numeric-input", question |-> "Numeric",
      answer |-> Num(1000, 1), tolerance |-> [ kind |-> "fraction", n |-> 1, d |-> 10 ],
      unit |-> "ms" ]

orderingProblem(id) ==
    [ id |-> id, type |-> "ordering", question |-> "Order",
      items |-> << "First", "Second", "Third" >>,
      correctOrder |-> << 0, 1, 2 >> ]

multiSelectProblem(id) ==
    [ id |-> id, type |-> "multi-select", question |-> "Multi",
      options |-> << "A", "B", "C", "D" >>, correctIndices |-> << 0, 2 >> ]

twoStageProblem(id) ==
    [ id |-> id, type |-> "two-stage",
      stages |-> << [ question |-> "Part 1", options |-> << "X", "Y" >>,
                      correct |-> 0 ],
                    [ question |-> "Part 2", options |-> << "P", "Q" >>,
                      correct |-> 1 ] >> ]

\* numericProblem(id, { answer, tolerance })
numericProblemWith(id, answer, tolerance) ==
    [ numericProblem(id) EXCEPT !.answer = answer, !.tolerance = tolerance ]

\* numericProblem(id, { answer }) after "delete p.tolerance"
numericProblemWithoutTolerance(id, answer) ==
    LET p == [ numericProblem(id) EXCEPT !.answer = answer ]
    IN  [ f \in DOMAIN p \ { "tolerance" } |-> p[f] ]

Fraction(n, d) == [ kind |-> "fraction", n |-> n, d |-> d ]

OrderOfMagnitude == [ kind |-> "order-of-magnitude", n |-> 0, d |-> 1 ]

Exact == [ kind |-> "exact", n |-> 0, d |-> 1 ]

\* The catalog, in the order a caller lists the questions.
Catalog == << "m1", "n1", "o1", "s1", "t1" >>

Problem(id) ==
    CASE id = "m1" -> mcProblem(id)
      [] id = "m2" -> mcProblem(id)
      [] id = "n1" -> numericProblem(id)
      [] id = "n2" -> numericProblemWith(id, Num(-5, 1), Fraction(1, 10))
      [] id = "n3" -> numericProblemWithoutTolerance(id, Num(1000, 1))
      [] id = "n4" -> numericProblemWith(id, Num(1000, 1), OrderOfMagnitude)
      [] id = "n5" -> numericProblemWith(id, Num(-1000, 1), OrderOfMagnitude)
      [] id = "n6" -> numericProblemWith(id, Num(0, 1), Fraction(1, 10))
      [] id = "n7" -> numericProblemWith(id, Num(0, 1), OrderOfMagnitude)
      [] id = "n8" -> numericProblemWith(id, Num(0, 1), Exact)
      [] id = "n9" -> numericProblemWithoutTolerance(id, Num(0, 1))
      [] id = "o1" -> orderingProblem(id)
      [] id = "s1" -> multiSelectProblem(id)
      [] id = "t1" -> twoStageProblem(id)

\* The tags the caller gives its question objects (p1.tags = [...]): the
\* two multiple-choice questions and the numeric one are tagged, the other
\* questions have no tags property.
InitialTags ==
    [ id \in { "m1", "m2", "n1" } |->
        CASE id = "m1" -> << "caching", "consistency" >>
          [] id = "m2" -> << "caching" >>
          [] id = "n1" -> << "constructor" >> ]

\* Property names every object literal {} inherits from Object.prototype:
\* for such a key k, !object[k] is false on an empty object, and
\* object[k].total++ writes on the inherited value, so the object gets no
\* entry of its own under k.
PrototypeKeys == { "constructor", "toString", "valueOf", "hasOwnProperty" }

\* problem.type || "multiple-choice"
TypeOf(p) == IF "type" \in DOMAIN p THEN p.type ELSE "multiple-choice"

-----------------------------------------------------------------------------
(* Weights.  Every weight is an integer number of quarters (1 = 4, 1.5 = 6, *)
(* 2 = 8), and a draw Math.random() * total is an integer number of        *)
(* quarters in 0 .. total - 1: the weights being even, the odd draws stand *)
(* for the points strictly between two thresholds of the walk, the even    *)
(* ones for the thresholds themselves, 0 for a draw of exactly 0.          *)

Types == { "multiple-choice", "numeric-input", "ordering", "multi-select",
           "two-stage" }

DEFAULT_TYPE_WEIGHTS ==
    [ t \in Types |->
        CASE t = "multiple-choice" -> 4
          [] t = "numeric-input"   -> 6
          [] t = "ordering"        -> 8
          [] t = "multi-select"    -> 6
          [] t = "two-stage"       -> 8 ]

\* { ...DEFAULT_TYPE_WEIGHTS, ...typeWeights }
MergeWeights(base, over) ==
    [ t \in DOMAIN base \cup DOMAIN over |->
        IF t \in DOMAIN over THEN over[t] ELSE base[t] ]

\* the typeWeights a caller gives the constructor: none (options = {}), or
\* a zero weight for one type
NoOverrides == [ t \in { } |-> 0 ]

TypeWeightOptions ==
    { NoOverrides, [ t \in { "multiple-choice" } |-> 0 ] }

\* the #typeWeights of an engine built with one of these options
MergedWeights == { MergeWeights(DEFAULT_TYPE_WEIGHTS, o) : o \in TypeWeightOptions }

\* a tracking entry { seen, correct, lastSeen }; lastSeen is null (NoDate) or
\* a time, kept as the number of days before the "now" of the call (DaysAgo)
NoDate == [ isNull |-> TRUE, daysAgo |-> 0 ]

DaysAgo(days) == [ isNull |-> FALSE, daysAgo |-> days ]

TrackingEntry(seen, correct, lastSeen) ==
    [ seen |-> seen, correct |-> correct, lastSeen |-> lastSeen ]

\* Math.exp(-0.1 * daysSince): exactly 1 at 0 days and exactly 0 (underflow)
\* from 7451 days on; to three decimals one day either side of now
Confidence(daysSince) ==
    CASE daysSince = 0     -> Num(1, 1)
      [] daysSince = 1     -> Num(905, 1000)
      [] daysSince = -1    -> Num(1105, 1000)
      [] daysSince >= 7451 -> Num(0, 1)

\* computeProficiency, with now - lastSeen given in days
computeProficiency(trackingEntry, hasEntry) ==
    IF ~hasEntry \/ trackingEntry.seen = 0 \/ trackingEntry.lastSeen.isNull
    THEN Num(1, 2)
    ELSE LET conf == Confidence(trackingEntry.lastSeen.daysAgo)
             \* accuracy * confidence + 0.5 * (1 - confidence)
             s    == trackingEntry.seen
             c    == trackingEntry.correct
         IN  Num(2 * c * conf.n + s * (conf.d - conf.n), 2 * s * conf.d)

\* computeSRWeights: id -> weight in quarters (tracking is the map of entries)
computeSRWeights(pool, tracking) ==
    [ id \in Range(pool) |->
        IF id \notin DOMAIN tracking THEN 6
        ELSE LET pr == computeProficiency(tracking[id], TRUE)
             IN  (8 * pr.d - 4 * pr.n) \div pr.d ]

\* The problemTracking argument: null, or a map from ids to entries.
NoTracking == [ isNull |-> TRUE, map |-> [ id \in { } |-> TrackingEntry(0, 0, NoDate) ] ]

Tracking(map) == [ isNull |-> FALSE, map |-> map ]

\* problemTracking ? computeSRWeights(problems, problemTracking, now) : {}
SRWeightsOf(pool, tracking) ==
    IF tracking.isNull THEN [ id \in { } |-> 0 ]
    ELSE computeSRWeights(pool, tracking.map)

-----------------------------------------------------------------------------
(* The sampler.  A random function is modelled by the set of its outcomes. *)

Swap(a, i, j) == [ a EXCEPT ![i + 1] = a[j + 1], ![j + 1] = a[i + 1] ]

\* The draws of one shuffleArray call on an array of n elements: for each
\* i in n-1 .. 1, the index j = floor(Math.random() * (i + 1)) in 0 .. i.
Draws(n) == { d \in [ 1 .. (n - 1) -> 0 .. (n - 1) ] : \A i \in 1 .. (n - 1) : d[i] <= i }

\* the loop of shuffleArray from index i down, with the draws d
RECURSIVE ShuffleFrom(_, _, _)
ShuffleFrom(a, i, d) ==
    IF i <= 0 THEN a ELSE ShuffleFrom(Swap(a, i, d[i]), i - 1, d)

shuffleArray(array, d) == ShuffleFrom(array, Len(array) - 1, d)

\* the walk "rand -= w; if (rand <= 0) pick": the first index k of ws, among
\* those in live, at which rand minus the weights walked so far is <= 0;
\* 0 when the walk ends without a pick
RECURSIVE Walk(_, _, _, _)
Walk(ws, live, rand, k) ==
    IF k > Len(ws) THEN 0
    ELSE IF k \notin live THEN Walk(ws, live, rand, k + 1)
    ELSE IF rand - ws[k] <= 0 THEN k
    ELSE Walk(ws, live, rand - ws[k], k + 1)

\* the types of the pool in the order Object.keys(byType) lists them: the
\* order of first appearance
RECURSIVE TypesInOrder(_, _)
TypesInOrder(pool, seen) ==
    IF pool = << >> THEN << >>
    ELSE LET t == TypeOf(Problem(Head(pool)))
         IN  IF t \in seen THEN TypesInOrder(Tail(pool), seen)
             ELSE << t >> \o TypesInOrder(Tail(pool), seen \cup { t })

RECURSIVE OfType(_, _)
OfType(pool, t) ==
    IF pool = << >> THEN << >>
    ELSE IF TypeOf(Problem(Head(pool))) = t
         THEN << Head(pool) >> \o OfType(Tail(pool), t)
         ELSE OfType(Tail(pool), t)

\* problemWeights[item.id] || 1
ItemWeight(problemWeights, id) ==
    IF id \in DOMAIN problemWeights /\ problemWeights[id] # 0
    THEN problemWeights[id] ELSE 4

\* the while loop of weightedShuffle: queues is the sequence of item queues,
\* ws their weights
RECURSIVE DrawLoop(_, _, _, _)
DrawLoop(queues, ws, problemWeights, result) ==
    LET live        == { k \in DOMAIN queues : queues[k] # << >> }
        totalWeight == SumSeq([ k \in DOMAIN queues |->
                                  IF k \in live THEN ws[k] ELSE 0 ])
    IN  IF live = { } \/ totalWeight = 0 THEN { result }
        ELSE UNION {
               LET k == Walk(ws, live, rand, 1)
                   items == queues[k]
                   itemWeights == [ i \in DOMAIN items |->
                                      ItemWeight(problemWeights, items[i]) ]
               IN  UNION {
                     LET hit == Walk(itemWeights, DOMAIN items, itemRand, 1)
                         pickedIndex == IF hit = 0 THEN 0 ELSE hit - 1
                     IN  DrawLoop([ queues EXCEPT ![k] = RemoveAt(items, pickedIndex) ],
                                  ws, problemWeights,
                                  Append(result, items[pickedIndex + 1]))
                     : itemRand \in 0 .. SumSeq(itemWeights) - 1 }
               : rand \in 0 .. totalWeight - 1 }

\* the while loop with a splice of the first item of the queue in place of
\* the picked one
RECURSIVE DrawLoopSplicingFirst(_, _, _, _)
DrawLoopSplicingFirst(queues, ws, problemWeights, result) ==
    LET live        == { k \in DOMAIN queues : queues[k] # << >> }
        totalWeight == SumSeq([ k \in DOMAIN queues |->
                                  IF k \in live THEN ws[k] ELSE 0 ])
    IN  IF live = { } \/ totalWeight = 0 THEN { result }
        ELSE UNION {
               LET k == Walk(ws, live, rand, 1)
                   items == queues[k]
                   itemWeights == [ i \in DOMAIN items |->
                                      ItemWeight(problemWeights, items[i]) ]
               IN  UNION {
                     LET hit == Walk(itemWeights, DOMAIN items, itemRand, 1)
                         pickedIndex == IF hit = 0 THEN 0 ELSE hit - 1
                     IN  DrawLoopSplicingFirst(
                             [ queues EXCEPT ![k] = RemoveAt(items, 0) ],
                             ws, problemWeights,
                             Append(result, items[pickedIndex + 1]))
                     : itemRand \in 0 .. SumSeq(itemWeights) - 1 }
               : rand \in 0 .. totalWeight - 1 }

\* every way of shuffling each queue on its own
RECURSIVE ShuffledQueues(_)
ShuffledQueues(queues) ==
    IF queues = << >> THEN { << >> }
    ELSE { << shuffleArray(Head(queues), d) >> \o t :
             d \in Draws(Len(Head(queues))), t \in ShuffledQueues(Tail(queues)) }

\* weightedShuffle with that loop
weightedShuffleSplicingFirst(pool, tw, problemWeights) ==
    LET types  == TypesInOrder(pool, { })
        byType == [ k \in DOMAIN types |-> OfType(pool, types[k]) ]
        ws     == [ k \in DOMAIN types |->
                      IF types[k] \in DOMAIN tw THEN tw[types[k]] ELSE 4 ]
    IN  UNION { DrawLoopSplicingFirst(q, ws, problemWeights, << >>) :
                  q \in ShuffledQueues(byType) }

\* the outcomes of weightedShuffle(problems, typeWeights, problemWeights)
weightedShuffle(pool, tw, problemWeights) ==
    LET types  == TypesInOrder(pool, { })
        byType == [ k \in DOMAIN types |-> OfType(pool, types[k]) ]
        ws     == [ k \in DOMAIN types |->
                      IF types[k] \in DOMAIN tw THEN tw[types[k]] ELSE 4 ]
    IN  UNION { DrawLoop(q, ws, problemWeights, << >>) : q \in ShuffledQueues(byType) }

\* The pools a caller loads: the runs of at most MaxPool consecutive
\* questions of the catalog (which is taken as a ring), in catalog order.
Window(first, n) ==
    [ k \in 1 .. n |-> Catalog[((first + k - 2) % Len(Catalog)) + 1] ]

Pools ==
    { Window(first, n) : first \in DOMAIN Catalog,
                         n \in 0 .. (IF MaxPool < Len(Catalog) THEN MaxPool ELSE Len(Catalog)) }

\* The pools given to an engine built with typeWeights: one or two
\* multiple-choice questions (m2 is a second one, outside the catalog), alone
\* or with questions of other types before, between or after them.
WeightedPools ==
    { << "m1" >>, << "m1", "m2" >>, << "m1", "n1" >>, << "n1", "m1" >>,
      << "m1", "n1", "m2" >>, << "n1", "m2", "m1" >>, << "o1", "m1", "n1" >> }

\* The pools of the numeric sessions: one numeric question each, with a
\* target that is positive, negative or 0 under each tolerance policy.
NumericPools ==
    { << "n1" >>, << "n2" >>, << "n3" >>, << "n4" >>, << "n5" >>, << "n6" >>,
      << "n7" >>, << "n8" >>, << "n9" >> }

\* what the user types in those sessions: values on, just inside and just
\* outside the limits of each tolerance, of either sign
GradedInputs ==
    { << "0" >>, << "-", "0" >>, << "5" >>, << "-", "5" >>,
      << "-", "4", ".", "5" >>, << "-", "5", ".", "5" >>, << "-", "6" >>,
      << "9", "9" >>, << "1", "0", "0" >>, << "4", "9", "9" >>,
      << "5", "0", "0" >>, << "8", "9", "9" >>, << "9", "0", "0" >>,
      << "1", ",", "0", "0", "0" >>, << "1", "1", "0", "0" >>,
      << "1", "1", "0", "1" >>, << "1", "5", "0", "0" >>,
      << "1", "5", "0", "1" >>, << "1", "K" >>, << "1", "0", "K" >>,
      << "1", "0", "0", "0", "1" >>, << "-", "1", "0", "0" >>,
      << "-", "1", "0", "0", "0" >>, << "a", "b", "c" >> }

-----------------------------------------------------------------------------
(* Records of the engine *)

EventNames ==
    { "stateChange", "questionShow", "optionSelected", "twoStageAdvance",
      "numericResult", "multiSelectToggle", "multiSelectResult",
      "orderingUpdate", "orderingResult", "skip", "timeout", "complete" }

\* An answer record.  shape names the properties the JavaScript object has
\* besides problemId and correct: "option" {selected}, "multiSelect"
\* {selected (here indices), correctIndices}, "numeric" {userValue,
\* correctValue}, "ordering" {userOrder}, "twoStage" {stageAnswers}, "bypass"
\* {skipped} or {timedOut}.  The other fields hold fillers and stand for
\* undefined; skipped / timedOut FALSE stand for the property being absent.
BlankAnswer(problemId) ==
    [ problemId |-> problemId, shape |-> "bypass", correct |-> FALSE,
      skipped |-> FALSE, timedOut |-> FALSE, selected |-> -1,
      indices |-> << >>, correctIndices |-> << >>, userValue |-> NaN,
      correctValue |-> NaN, userOrder |-> << >>, stageAnswers |-> << >> ]

\* the engine as one record (the private fields, and what the call produced)
Engine ==
    [ state |-> state, listeners |-> listeners, typeWeights |-> typeWeights,
      problems |-> problems, allProblems |-> allProblems,
      maxProblems |-> maxProblems, currentIndex |-> currentIndex,
      answers |-> answers, context |-> context,
      problemTracking |-> problemTracking, answered |-> answered,
      multiSelectSelected |-> multiSelectSelected,
      orderingOrder |-> orderingOrder, twoStageIndex |-> twoStageIndex,
      twoStageAnswers |-> twoStageAnswers,
      emitted |-> << >>, delivered |-> << >>, threw |-> FALSE,
      tags |-> tags, shared |-> shared, caller |-> caller ]

\* a TypeError: the handler stops here
Throw(e) == [ e EXCEPT !.threw = TRUE ]

\* what a listener reading the getters sees during an emission
View(e) ==
    [ state |-> e.state, index |-> e.currentIndex, nAnswers |-> Len(e.answers) ]

\* this.#problems[this.#currentIndex] is not undefined
HasCurrent(e) == (e.currentIndex + 1) \in DOMAIN e.problems

CurrentProblem(e) == Problem(e.problems[e.currentIndex + 1])

-----------------------------------------------------------------------------
(* Event system *)

on(e, event, fn) ==
    [ e EXCEPT !.listeners[event] = Append(@, fn) ]

off(e, event, fn) ==
    [ e EXCEPT !.listeners[event] = FilterOut(@, fn) ]

\* #emit calling the listeners newest first
emitNewestFirst(e, event, payload) ==
    IF e.threw THEN e
    ELSE LET ev  == [ name |-> event, payload |-> payload, seen |-> View(e) ]
             fns == e.listeners[event]
         IN  [ e EXCEPT !.emitted = Append(@, ev),
                        !.delivered = @ \o [ i \in 1 .. Len(fns) |->
                                               [ fn |-> fns[Len(fns) + 1 - i],
                                                 event |-> ev ] ] ]

emit(e, event, payload) ==
    IF e.threw THEN e
    ELSE LET ev  == [ name |-> event, payload |-> payload, seen |-> View(e) ]
             fns == e.listeners[event]
         IN  [ e EXCEPT !.emitted = Append(@, ev),
                        !.delivered = @ \o [ i \in 1 .. Len(fns) |->
                                               [ fn |-> fns[i], event |-> ev ] ] ]

setState(e, to) ==
    IF e.threw \/ e.state = to THEN e
    ELSE emit([ e EXCEPT !.state = to ], "stateChange",
              [ from |-> e.state, to |-> to ])

-----------------------------------------------------------------------------
(* Getters and the session summary *)

Count(s, P(_)) == Cardinality({ i \in DOMAIN s : P(s[i]) })

\* get score counting the bypassed records among the graded ones
scoreOfAllRecords(e) ==
    LET Right(a)   == a.correct
        Each(a)    == TRUE
        Skipped(a) == a.skipped
        TimedOut(a) == a.timedOut
        correct == Count(e.answers, Right)
        total   == Count(e.answers, Each)
    IN  [ correct |-> correct, total |-> total,
          percentage |-> IF total > 0 THEN RoundPercent(correct, total) ELSE 0,
          skipped |-> Count(e.answers, Skipped),
          timedOut |-> Count(e.answers, TimedOut) ]

score(e) ==
    LET Graded(a)  == ~a.skipped /\ ~a.timedOut
        Right(a)   == Graded(a) /\ a.correct
        Skipped(a) == a.skipped
        TimedOut(a) == a.timedOut
        correct == Count(e.answers, Right)
        total   == Count(e.answers, Graded)
    IN  [ correct |-> correct, total |-> total,
          percentage |-> IF total > 0 THEN RoundPercent(correct, total) ELSE 0,
          skipped |-> Count(e.answers, Skipped),
          timedOut |-> Count(e.answers, TimedOut) ]

\* get problem(): the id of the current question, Null for null; "undefined"
\* when the index is outside the question sequence
problemGetter(e) ==
    IF e.state = "idle" \/ e.state = "complete" THEN Null
    ELSE IF HasCurrent(e) THEN e.problems[e.currentIndex + 1] ELSE "undefined"

\* The question object id as it stands: the fixture, with the tags array the
\* object holds now
ProblemObject(e, id) ==
    IF id \notin DOMAIN e.tags THEN Problem(id)
    ELSE ("tags" :> e.tags[id]) @@ Problem(id)

\* A userAnswer / correctAnswer of a summary result: null, undefined, an
\* index, a number, an array of indices, or an array of stage outcomes.
Val(k) == [ k |-> k, i |-> -1, num |-> NaN, seq |-> << >>, stages |-> << >> ]

\* #buildSummaryResult for a problem that was found.  threw: the spread or
\* the map of a property the answer record does not have.  tagsOf: the
\* question whose tags array the result's tags is ("tags: problem.tags"), Null
\* when it is a new array ("|| []"); the other arrays are new ([...x], map).
buildSummaryResult(problem, answer) ==
    LET type == TypeOf(problem)
        base == [ id |-> answer.problemId, type |-> type,
                  question |-> IF "question" \in DOMAIN problem
                               THEN problem.question ELSE "",
                  correct |-> answer.correct,
                  tags |-> IF "tags" \in DOMAIN problem THEN problem.tags ELSE << >>,
                  tagsOf |-> IF "tags" \in DOMAIN problem THEN problem.id ELSE Null,
                  skipped |-> FALSE, timedOut |-> FALSE,
                  userAnswer |-> Val("null"), correctAnswer |-> Val("null") ]
        ok(r) == [ threw |-> FALSE, value |-> r ]
        fail  == [ threw |-> TRUE, value |-> base ]
    IN  IF answer.skipped THEN ok([ base EXCEPT !.skipped = TRUE ])
        ELSE IF answer.timedOut THEN ok([ base EXCEPT !.timedOut = TRUE ])
        ELSE CASE type = "multiple-choice" ->
                    ok([ base EXCEPT
                           !.userAnswer = IF answer.shape = "option"
                                          THEN [ Val("index") EXCEPT !.i = answer.selected ]
                                          ELSE IF answer.shape = "multiSelect"
                                          THEN [ Val("indices") EXCEPT !.seq = answer.indices ]
                                          ELSE Val("undefined"),
                           !.correctAnswer = [ Val("index") EXCEPT !.i = problem.correct ] ])
               [] type = "numeric-input" ->
                    ok([ base EXCEPT
                           !.userAnswer = IF answer.shape = "numeric"
                                          THEN [ Val("number") EXCEPT !.num = answer.userValue ]
                                          ELSE Val("undefined"),
                           !.correctAnswer = [ Val("number") EXCEPT !.num = problem.answer ] ])
               [] type = "ordering" ->
                    \* [...answer.userOrder]
                    IF answer.shape # "ordering" THEN fail
                    ELSE ok([ base EXCEPT
                                !.userAnswer = [ Val("indices") EXCEPT !.seq = answer.userOrder ],
                                !.correctAnswer = [ Val("indices") EXCEPT !.seq = problem.correctOrder ] ])
               [] type = "multi-select" ->
                    \* [...answer.selected]: a number and undefined are not iterable
                    IF answer.shape # "multiSelect" THEN fail
                    ELSE ok([ base EXCEPT
                                !.userAnswer = [ Val("indices") EXCEPT !.seq = answer.indices ],
                                !.correctAnswer = [ Val("indices") EXCEPT !.seq = problem.correctIndices ] ])
               [] type = "two-stage" ->
                    \* answer.stageAnswers.map(...)
                    IF answer.shape # "twoStage" THEN fail
                    ELSE ok([ base EXCEPT
                                !.userAnswer = [ Val("stages") EXCEPT !.stages = answer.stageAnswers ],
                                !.correctAnswer = [ Val("indices") EXCEPT
                                                      !.seq = [ k \in DOMAIN problem.stages |->
                                                                  problem.stages[k].correct ] ] ])
               [] OTHER -> ok(base)

\* #computeTypeBreakdown: by position, over graded answers
computeTypeBreakdown(e) ==
    LET TypeAt(i) == IF i \in DOMAIN e.problems
                     THEN TypeOf(Problem(e.problems[i])) ELSE "multiple-choice"
        graded    == { i \in DOMAIN e.answers :
                         ~e.answers[i].skipped /\ ~e.answers[i].timedOut }
        keys      == { TypeAt(i) : i \in graded } \ PrototypeKeys
    IN  [ t \in keys |->
            LET total   == Cardinality({ i \in graded : TypeAt(i) = t })
                correct == Cardinality({ i \in graded : TypeAt(i) = t /\ e.answers[i].correct })
            IN  [ correct |-> correct, total |-> total,
                  percentage |-> IF total > 0 THEN RoundPercent(correct, total) ELSE 0 ] ]

\* #computeTagBreakdown: by position, over graded answers, once per tag
computeTagBreakdown(e) ==
    LET TagsAt(i) == IF i \in DOMAIN e.problems
                          /\ "tags" \in DOMAIN ProblemObject(e, e.problems[i])
                     THEN ProblemObject(e, e.problems[i]).tags ELSE << >>
        graded    == { i \in DOMAIN e.answers :
                         ~e.answers[i].skipped /\ ~e.answers[i].timedOut }
        Hits(i, t) == Cardinality({ k \in DOMAIN TagsAt(i) : TagsAt(i)[k] = t })
        keys      == UNION { Range(TagsAt(i)) : i \in graded } \ PrototypeKeys
    IN  [ t \in keys |->
            LET total   == SumSeq([ i \in DOMAIN e.answers |->
                                      IF i \in graded THEN Hits(i, t) ELSE 0 ])
                correct == SumSeq([ i \in DOMAIN e.answers |->
                                      IF i \in graded /\ e.answers[i].correct
                                      THEN Hits(i, t) ELSE 0 ])
            IN  [ correct |-> correct, total |-> total,
                  percentage |-> IF total > 0 THEN RoundPercent(correct, total) ELSE 0 ] ]

\* The parts of a summary a caller can change in place: the results list,
\* the userAnswer, correctAnswer and tags of a result, the context, an entry
\* of a breakdown.
SummaryParts ==
    { "results", "userAnswer", "correctAnswer", "tags", "context",
      "breakdownByType", "breakdownByTag" }

\* The caller changes part of the summary s it was given (for the tags of
\* result i: tags.push(tag)).  The change reaches the engine where the part
\* is an object the engine holds too: the tags array of a question object.
\* Every other part is an object made for the summary.
mutateSummary(e, s, part, i, tag) ==
    IF part = "tags" /\ i \in DOMAIN s.results /\ s.results[i].tagsOf # Null
    THEN [ e EXCEPT !.tags[s.results[i].tagsOf] = Append(@, tag) ]
    ELSE e

\* getSessionSummary().  The timestamp (the clock) is left out.  threw: some
\* #buildSummaryResult threw.  problemsById.get(id) finds the last question
\* with that id; an answer whose question is not found gives type "unknown".
getSessionSummary(e) ==
    LET Found(a)  == { i \in DOMAIN e.problems : e.problems[i] = a.problemId }
        Last(a)   == CHOOSE i \in Found(a) : \A j \in Found(a) : j <= i
        Unknown(a) == [ id |-> a.problemId, type |-> "unknown", question |-> "",
                        correct |-> a.correct, tags |-> << >>, tagsOf |-> Null,
                        skipped |-> FALSE, timedOut |-> FALSE,
                        userAnswer |-> Val("null"), correctAnswer |-> Val("null") ]
        Built(a)  == IF Found(a) = { } THEN [ threw |-> FALSE, value |-> Unknown(a) ]
                     ELSE buildSummaryResult(ProblemObject(e, e.problems[Last(a)]), a)
        sc        == score(e)
    IN  [ threw |-> \E i \in DOMAIN e.answers : Built(e.answers[i]).threw,
          value |-> [ context |-> e.context,
                      score |-> sc,
                      results |-> [ i \in DOMAIN e.answers |-> Built(e.answers[i]).value ],
                      breakdownByType |-> computeTypeBreakdown(e),
                      breakdownByTag |-> computeTagBreakdown(e) ] ]

-----------------------------------------------------------------------------
(* Private helpers *)

\* #applyMaxProblems keeping the last questions: slice(-maxProblems)
applyMaxProblemsKeepingTail(e) ==
    IF e.maxProblems > 0 /\ Len(e.problems) > e.maxProblems
    THEN [ e EXCEPT !.problems = SubSeq(@, Len(@) - e.maxProblems + 1, Len(@)) ]
    ELSE e

applyMaxProblems(e) ==
    IF e.maxProblems > 0 /\ Len(e.problems) > e.maxProblems
    THEN [ e EXCEPT !.problems = Slice(@, e.maxProblems) ]
    ELSE e

\* #resetQuestionState leaving the multi-select selection and the two-stage
\* progress as they are
resetQuestionStateKeepingProgress(e) ==
    [ e EXCEPT !.answered = FALSE, !.orderingOrder = << >> ]

resetQuestionState(e) ==
    [ e EXCEPT !.answered = FALSE, !.multiSelectSelected = << >>,
               !.orderingOrder = << >>, !.twoStageIndex = 0,
               !.twoStageAnswers = << >> ]

\* [...Array(n).keys()]
Keys(n) == [ i \in 1 .. n |-> i - 1 ]

\* #emitCurrentQuestion; d: the draws of the display shuffle
emitCurrentQuestion(e, d) ==
    IF e.threw THEN e
    ELSE LET e1 == resetQuestionState(e)
         IN  IF ~HasCurrent(e1) THEN Throw(e1)      \* problem.type of undefined
             ELSE LET problem  == CurrentProblem(e1)
                      type     == TypeOf(problem)
                      shuffled == IF type = "ordering"
                                  THEN shuffleArray(Keys(Len(problem.items)), d)
                                  ELSE << >>
                      e2       == IF type = "ordering"
                                  THEN [ e1 EXCEPT !.orderingOrder = shuffled ]
                                  ELSE e1
                  IN  emit(e2, "questionShow",
                           [ problem |-> problem.id, index |-> e2.currentIndex,
                             total |-> Len(e2.problems), type |-> type,
                             shuffledItems |-> shuffled ])

\* #complete
complete(e) ==
    IF e.threw THEN e
    ELSE LET finalScore     == score(e)
             sessionSummary == getSessionSummary(e)
         IN  IF sessionSummary.threw THEN Throw(e)
             ELSE emit(setState(e, "complete"), "complete",
                       [ correct |-> finalScore.correct, total |-> finalScore.total,
                         percentage |-> finalScore.percentage,
                         answers |-> e.answers,
                         sessionSummary |-> sessionSummary.value ])

\* this.#answers.push(record)
Push(e, record) == [ e EXCEPT !.answers = Append(@, record) ]

\* #handleMultipleChoiceSelect changing the state before it appends the record
handleMultipleChoiceSelectStateFirst(e, index) ==
    IF e.answered THEN e
    ELSE LET problem   == CurrentProblem(e)
             isCorrect == "correct" \in DOMAIN problem /\ index = problem.correct
             e1 == setState([ e EXCEPT !.answered = TRUE ], "answered")
             e2 == Push(e1, [ BlankAnswer(problem.id) EXCEPT
                                !.shape = "option", !.selected = index,
                                !.correct = isCorrect ])
         IN  emit(e2, "optionSelected",
                  [ index |-> index, correct |-> isCorrect,
                    correctIndex |-> IF "correct" \in DOMAIN problem
                                     THEN problem.correct ELSE -1,
                    isFinalStage |-> FALSE, allCorrect |-> FALSE ])

\* #handleMultipleChoiceSelect
handleMultipleChoiceSelect(e, index) ==
    IF e.answered THEN e
    ELSE LET problem   == CurrentProblem(e)
             \* index === problem.correct (undefined for the other types)
             isCorrect == "correct" \in DOMAIN problem /\ index = problem.correct
             e1 == Push([ e EXCEPT !.answered = TRUE ],
                        [ BlankAnswer(problem.id) EXCEPT
                            !.shape = "option", !.selected = index,
                            !.correct = isCorrect ])
             e2 == setState(e1, "answered")
         IN  emit(e2, "optionSelected",
                  [ index |-> index, correct |-> isCorrect,
                    correctIndex |-> IF "correct" \in DOMAIN problem
                                     THEN problem.correct ELSE -1,
                    isFinalStage |-> FALSE, allCorrect |-> FALSE ])

\* array[index], "undefined" outside the array
TextAt(options, index) ==
    IF (index + 1) \in DOMAIN options THEN options[index + 1] ELSE "undefined"

\* #handleTwoStageSelect grading the question at its first stage
handleTwoStageSelectFirstStage(e, index) ==
    LET problem    == CurrentProblem(e)
        stage      == problem.stages[e.twoStageIndex + 1]
        isCorrect  == index = stage.correct
        e1 == [ e EXCEPT !.twoStageAnswers =
                           Append(@, [ selected |-> index, correct |-> isCorrect ]) ]
        e2 == Push([ e1 EXCEPT !.answered = TRUE ],
                   [ BlankAnswer(problem.id) EXCEPT
                       !.shape = "twoStage",
                       !.stageAnswers = e1.twoStageAnswers,
                       !.correct = isCorrect ])
    IN  emit(setState(e2, "answered"), "optionSelected",
             [ index |-> index, correct |-> isCorrect,
               correctIndex |-> stage.correct,
               isFinalStage |-> TRUE, allCorrect |-> isCorrect ])

\* #handleTwoStageSelect with the record's correctness taken from the final
\* stage alone
handleTwoStageSelectLastStage(e, index) ==
    LET problem    == CurrentProblem(e)
        stageIndex == e.twoStageIndex
        stage      == problem.stages[stageIndex + 1]
        isCorrect  == index = stage.correct
        e1 == [ e EXCEPT !.twoStageAnswers =
                           Append(@, [ selected |-> index, correct |-> isCorrect ]) ]
    IN  IF stageIndex < Len(problem.stages) - 1
        THEN LET nextStage == problem.stages[stageIndex + 2]
             IN  emit([ e1 EXCEPT !.twoStageIndex = stageIndex + 1 ],
                      "twoStageAdvance",
                      [ stageIndex |-> stageIndex,
                        totalStages |-> Len(problem.stages),
                        stageResult |-> [ index |-> index, correct |-> isCorrect,
                                          correctIndex |-> stage.correct ],
                        nextStage |-> [ stageIndex |-> stageIndex + 1,
                                        question |-> nextStage.question,
                                        options |-> nextStage.options,
                                        previousAnswer |-> stage.options[index + 1] ] ])
        ELSE LET e2 == Push([ e1 EXCEPT !.answered = TRUE ],
                            [ BlankAnswer(problem.id) EXCEPT
                                !.shape = "twoStage",
                                !.stageAnswers = e1.twoStageAnswers,
                                !.correct = isCorrect ])
             IN  emit(setState(e2, "answered"), "optionSelected",
                      [ index |-> index, correct |-> isCorrect,
                        correctIndex |-> stage.correct,
                        isFinalStage |-> TRUE, allCorrect |-> isCorrect ])

\* #handleTwoStageSelect
handleTwoStageSelect(e, index) ==
    LET problem    == CurrentProblem(e)
        stageIndex == e.twoStageIndex
        stage      == problem.stages[stageIndex + 1]
        isCorrect  == index = stage.correct
        e1 == [ e EXCEPT !.twoStageAnswers =
                           Append(@, [ selected |-> index, correct |-> isCorrect ]) ]
    IN  IF stageIndex < Len(problem.stages) - 1
        THEN LET nextStage == problem.stages[stageIndex + 2]
             IN  emit([ e1 EXCEPT !.twoStageIndex = stageIndex + 1 ],
                      "twoStageAdvance",
                      [ stageIndex |-> stageIndex,
                        totalStages |-> Len(problem.stages),
                        stageResult |-> [ index |-> index, correct |-> isCorrect,
                                          correctIndex |-> stage.correct ],
                        nextStage |-> [ stageIndex |-> stageIndex + 1,
                                        question |-> nextStage.question,
                                        options |-> nextStage.options,
                                        previousAnswer |-> TextAt(stage.options, index) ] ])
        ELSE LET allCorrect == \A k \in DOMAIN e1.twoStageAnswers :
                                 e1.twoStageAnswers[k].correct
                 e2 == Push([ e1 EXCEPT !.answered = TRUE ],
                            [ BlankAnswer(problem.id) EXCEPT
                                !.shape = "twoStage",
                                !.stageAnswers = e1.twoStageAnswers,
                                !.correct = allCorrect ])
                 e3 == setState(e2, "answered")
             IN  emit(e3, "optionSelected",
                      [ index |-> index, correct |-> isCorrect,
                        correctIndex |-> stage.correct,
                        isFinalStage |-> TRUE, allCorrect |-> allCorrect ])

\* #gradeOrdering with some() in place of every()
gradeOrderingSomePosition(e) ==
    LET e1 == [ e EXCEPT !.answered = TRUE ]
    IN  IF ~HasCurrent(e1) THEN Throw(e1)
        ELSE LET problem   == CurrentProblem(e1)
                 isCorrect == \E k \in DOMAIN e1.orderingOrder :
                                 /\ k \in DOMAIN problem.correctOrder
                                 /\ problem.correctOrder[k] = e1.orderingOrder[k]
                 e2 == Push(e1, [ BlankAnswer(problem.id) EXCEPT
                                    !.shape = "ordering",
                                    !.userOrder = e1.orderingOrder,
                                    !.correct = isCorrect ])
                 e3 == setState(e2, "answered")
             IN  emit(e3, "orderingResult",
                      [ userOrder |-> e1.orderingOrder,
                        correctOrder |-> IF "correctOrder" \in DOMAIN problem
                                         THEN problem.correctOrder ELSE << >>,
                        correct |-> isCorrect ])

\* #gradeOrdering
gradeOrdering(e) ==
    LET e1 == [ e EXCEPT !.answered = TRUE ]
    IN  \* with no current question the callback of every() never runs (the
        \* working order is empty) and problem.id throws
        IF ~HasCurrent(e1) THEN Throw(e1)
        ELSE LET problem   == CurrentProblem(e1)
                 \* every() over an empty working order is true; the working
                 \* order is not empty only on an ordering question
                 isCorrect == \A k \in DOMAIN e1.orderingOrder :
                                 /\ k \in DOMAIN problem.correctOrder
                                 /\ problem.correctOrder[k] = e1.orderingOrder[k]
                 e2 == Push(e1, [ BlankAnswer(problem.id) EXCEPT
                                    !.shape = "ordering",
                                    !.userOrder = e1.orderingOrder,
                                    !.correct = isCorrect ])
                 e3 == setState(e2, "answered")
             IN  emit(e3, "orderingResult",
                      [ userOrder |-> e1.orderingOrder,
                        correctOrder |-> IF "correctOrder" \in DOMAIN problem
                                         THEN problem.correctOrder ELSE << >>,
                        correct |-> isCorrect ])

-----------------------------------------------------------------------------
(* Public methods *)

\* The caller changes the array it gave loadProblems: problems.push(id)
callerPush(e, id) ==
    LET array == Append(e.caller.problems, id)
    IN  [ e EXCEPT !.caller.problems = array,
                   !.allProblems = IF "allProblems" \in e.shared THEN array ELSE @ ]

\* problems.length = 0
callerClear(e) ==
    [ e EXCEPT !.caller.problems = << >>,
               !.allProblems = IF "allProblems" \in e.shared THEN << >> ELSE @ ]

\* The caller changes the context object it gave loadProblems:
\* context.unitTitle = title
callerSetContext(e, title) ==
    LET object == [ k \in DOMAIN e.caller.context \cup { "unitTitle" } |->
                      IF k = "unitTitle" THEN title ELSE e.caller.context[k] ]
    IN  [ e EXCEPT !.caller.context = object,
                   !.context = IF "context" \in e.shared THEN object ELSE @ ]

\* loadProblems storing the caller's array and context object themselves
loadProblemsKeepingReferences(e, pool, cap, ctx, tracking, drawn) ==
    LET e1 == [ e EXCEPT !.allProblems = pool, !.maxProblems = cap,
                         !.context = ctx, !.problemTracking = tracking,
                         !.problems = drawn,
                         !.shared = { "allProblems", "context" } ]
        e2 == applyMaxProblems(e1)
        e3 == resetQuestionState([ e2 EXCEPT !.currentIndex = 0, !.answers = << >> ])
    IN  setState(e3, "idle")

\* loadProblems(problems, maxProblems, context, problemTracking); drawn: the
\* outcome of weightedShuffle
loadProblems(e, pool, cap, ctx, tracking, drawn) ==
    LET \* [...problems], { ...context } and the result of weightedShuffle
        \* are new objects: no field holds an object of the caller
        e1 == [ e EXCEPT !.allProblems = pool, !.maxProblems = cap,
                         !.context = ctx, !.problemTracking = tracking,
                         !.problems = drawn, !.shared = { } ]
        e2 == applyMaxProblems(e1)
        e3 == resetQuestionState([ e2 EXCEPT !.currentIndex = 0, !.answers = << >> ])
    IN  setState(e3, "idle")

\* start without its test for an empty question sequence
startUnguarded(e, d) ==
    LET e1 == [ e EXCEPT !.currentIndex = 0, !.answers = << >> ]
    IN  emitCurrentQuestion(setState(e1, "practicing"), d)

\* start() leaving the answer log and the index as they are
startKeepingAnswers(e, d) ==
    IF Len(e.problems) = 0 THEN e
    ELSE emitCurrentQuestion(setState(e, "practicing"), d)

start(e, d) ==
    IF Len(e.problems) = 0 THEN e
    ELSE LET e1 == [ e EXCEPT !.currentIndex = 0, !.answers = << >> ]
         IN  emitCurrentQuestion(setState(e1, "practicing"), d)

next(e, d) ==
    IF e.state # "answered" THEN e
    ELSE IF e.currentIndex < Len(e.problems) - 1
    THEN LET e1 == [ e EXCEPT !.currentIndex = @ + 1 ]
         IN  emitCurrentQuestion(setState(e1, "practicing"), d)
    ELSE complete(e)

\* retry(); drawn: the outcome of weightedShuffle on #allProblems
retry(e, drawn, d) ==
    LET e1 == applyMaxProblems([ e EXCEPT !.problems = drawn ])
        e2 == resetQuestionState([ e1 EXCEPT !.currentIndex = 0, !.answers = << >> ])
    IN  emitCurrentQuestion(setState(e2, "practicing"), d)

\* reset() that keeps the stored tracking
resetKeepingTracking(e) ==
    LET e1 == [ e EXCEPT !.problems = << >>, !.allProblems = << >>,
                         !.maxProblems = 0, !.currentIndex = 0,
                         !.answers = << >>, !.context = [ k \in { } |-> "" ] ]
    IN  setState(resetQuestionState(e1), "idle")

reset(e) ==
    LET e1 == [ e EXCEPT !.problems = << >>, !.allProblems = << >>,
                         !.maxProblems = 0, !.currentIndex = 0,
                         !.answers = << >>, !.context = [ k \in { } |-> "" ],
                         !.problemTracking = NoTracking ]
    IN  setState(resetQuestionState(e1), "idle")

selectOption(e, index) ==
    IF e.state # "practicing" THEN e
    ELSE IF ~HasCurrent(e) THEN Throw(e)            \* problem.type of undefined
    ELSE IF TypeOf(CurrentProblem(e)) = "two-stage"
    THEN handleTwoStageSelect(e, index)
    ELSE handleMultipleChoiceSelect(e, index)

toggleMultiSelect(e, index) ==
    IF e.state # "practicing" \/ e.answered THEN e
    ELSE LET has == index \in Range(e.multiSelectSelected)
             e1  == [ e EXCEPT !.multiSelectSelected =
                                 IF has THEN FilterOut(@, index) ELSE Append(@, index) ]
         IN  emit(e1, "multiSelectToggle", [ index |-> index, selected |-> ~has ])

\* submitMultiSelect comparing the selection in the order of the toggles
submitMultiSelectUnsorted(e) ==
    IF e.state # "practicing" \/ e.answered THEN e
    ELSE LET e1 == [ e EXCEPT !.answered = TRUE ]
         IN  IF ~HasCurrent(e1) \/ "correctIndices" \notin DOMAIN CurrentProblem(e1)
             THEN Throw(e1)
             ELSE LET problem   == CurrentProblem(e1)
                      selected  == e1.multiSelectSelected
                      correct   == SortIndices(problem.correctIndices)
                      isCorrect == /\ Len(selected) = Len(correct)
                                   /\ \A k \in DOMAIN selected : selected[k] = correct[k]
                      e2 == Push(e1, [ BlankAnswer(problem.id) EXCEPT
                                         !.shape = "multiSelect",
                                         !.indices = selected,
                                         !.correctIndices = correct,
                                         !.correct = isCorrect ])
                      e3 == setState(e2, "answered")
                  IN  emit(e3, "multiSelectResult",
                           [ selected |-> selected,
                             correctIndices |-> problem.correctIndices,
                             correct |-> isCorrect ])

submitMultiSelect(e) ==
    IF e.state # "practicing" \/ e.answered THEN e
    ELSE LET e1 == [ e EXCEPT !.answered = TRUE ]
         IN  \* [...problem.correctIndices]: of undefined, or not iterable
             IF ~HasCurrent(e1) \/ "correctIndices" \notin DOMAIN CurrentProblem(e1)
             THEN Throw(e1)
             ELSE LET problem   == CurrentProblem(e1)
                      selected  == SortIndices(e1.multiSelectSelected)
                      correct   == SortIndices(problem.correctIndices)
                      isCorrect == /\ Len(selected) = Len(correct)
                                   /\ \A k \in DOMAIN selected : selected[k] = correct[k]
                      e2 == Push(e1, [ BlankAnswer(problem.id) EXCEPT
                                         !.shape = "multiSelect",
                                         !.indices = selected,
                                         !.correctIndices = correct,
                                         !.correct = isCorrect ])
                      e3 == setState(e2, "answered")
                  IN  emit(e3, "multiSelectResult",
                           [ selected |-> selected,
                             correctIndices |-> problem.correctIndices,
                             correct |-> isCorrect ])

\* submitNumeric without its state guard: it tests the answered flag only
submitNumericAnyState(e, rawString) ==
    IF e.answered THEN e
    ELSE IF rawString = << >> \/ Trim(rawString) = << >> THEN e
    ELSE IF ~HasCurrent(e) THEN Throw([ e EXCEPT !.answered = TRUE ])
    ELSE LET problem   == CurrentProblem(e)
             userValue == parseNumericInput(Trim(rawString))
             e1 == Push([ e EXCEPT !.answered = TRUE ],
                        [ BlankAnswer(problem.id) EXCEPT
                            !.shape = "numeric", !.userValue = userValue ])
         IN  setState(e1, "answered")

\* submitNumeric(rawString); rawString is a string (a sequence of characters)
submitNumeric(e, rawString) ==
    IF e.state # "practicing" \/ e.answered THEN e
    ELSE IF rawString = << >> \/ Trim(rawString) = << >> THEN e
    ELSE LET e1 == [ e EXCEPT !.answered = TRUE ]
             userValue == parseNumericInput(Trim(rawString))
         IN  IF ~HasCurrent(e1) THEN Throw(e1)      \* problem.answer of undefined
             ELSE LET problem   == CurrentProblem(e1)
                      numeric   == "answer" \in DOMAIN problem
                      answer    == IF numeric THEN problem.answer ELSE UndefinedNum
                      tolerance == IF "tolerance" \in DOMAIN problem
                                   THEN problem.tolerance
                                   ELSE [ kind |-> "undefined", n |-> 0, d |-> 1 ]
                      isCorrect == checkNumericAnswer(userValue, answer, tolerance)
                      e2 == Push(e1, [ BlankAnswer(problem.id) EXCEPT
                                         !.shape = "numeric",
                                         !.userValue = userValue,
                                         !.correctValue = answer,
                                         !.correct = isCorrect ])
                      e3 == setState(e2, "answered")
                  IN  \* formatNumber(undefined): undefined.toString() throws
                      IF ~numeric THEN Throw(e3)
                      ELSE emit(e3, "numericResult",
                                [ userValue |-> userValue, correctValue |-> answer,
                                  correct |-> isCorrect ])

\* moveOrderingItem exchanging the two positions
moveOrderingItemSwapping(e, fromIndex, toIndex) ==
    IF e.state # "practicing" \/ e.answered THEN e
    ELSE IF \/ fromIndex < 0 \/ fromIndex >= Len(e.orderingOrder)
            \/ toIndex < 0 \/ toIndex >= Len(e.orderingOrder)
    THEN e
    ELSE LET e1 == [ e EXCEPT !.orderingOrder = Swap(@, fromIndex, toIndex) ]
         IN  emit(e1, "orderingUpdate", [ order |-> e1.orderingOrder ])

\* moveOrderingItem inserting the item without taking it out first
moveOrderingItemCopying(e, fromIndex, toIndex) ==
    IF e.state # "practicing" \/ e.answered THEN e
    ELSE IF \/ fromIndex < 0 \/ fromIndex >= Len(e.orderingOrder)
            \/ toIndex < 0 \/ toIndex >= Len(e.orderingOrder)
    THEN e
    ELSE LET item == e.orderingOrder[fromIndex + 1]
             e1   == [ e EXCEPT !.orderingOrder = InsertAt(@, toIndex, item) ]
         IN  emit(e1, "orderingUpdate", [ order |-> e1.orderingOrder ])

moveOrderingItem(e, fromIndex, toIndex) ==
    IF e.state # "practicing" \/ e.answered THEN e
    ELSE IF \/ fromIndex < 0 \/ fromIndex >= Len(e.orderingOrder)
            \/ toIndex < 0 \/ toIndex >= Len(e.orderingOrder)
    THEN e
    ELSE LET item == e.orderingOrder[fromIndex + 1]
             e1   == [ e EXCEPT !.orderingOrder =
                                  InsertAt(RemoveAt(@, fromIndex), toIndex, item) ]
         IN  emit(e1, "orderingUpdate", [ order |-> e1.orderingOrder ])

submitOrdering(e) ==
    IF e.state # "practicing" \/ e.answered THEN e
    ELSE gradeOrdering(e)

\* the end of skip() and timeout() doing nothing once the session is complete
advanceOrCompleteUnlessComplete(e, d) ==
    IF e.threw \/ e.state = "complete" THEN e
    ELSE IF e.currentIndex < Len(e.problems) - 1
    THEN emitCurrentQuestion([ e EXCEPT !.currentIndex = @ + 1 ], d)
    ELSE complete(e)

\* the end of skip() and timeout(), after the emit: the next question is
\* shown, or the session completes
advanceOrComplete(e, d) ==
    IF e.threw THEN e
    ELSE IF e.currentIndex < Len(e.problems) - 1
    THEN emitCurrentQuestion([ e EXCEPT !.currentIndex = @ + 1 ], d)
    ELSE complete(e)

\* skip() from the push of the record to the end of the emit of "skip"
skipEmit(e) ==
    LET problem == CurrentProblem(e)
        e1 == Push(e, [ BlankAnswer(problem.id) EXCEPT
                          !.skipped = TRUE, !.correct = FALSE ])
    IN  emit(e1, "skip",
             [ problemId |-> problem.id, index |-> e1.currentIndex,
               total |-> Len(e1.problems) ])

skip(e, d) ==
    IF e.state # "practicing" THEN e
    ELSE IF ~HasCurrent(e) THEN Throw(e)            \* problem.id of undefined
    ELSE advanceOrComplete(skipEmit(e), d)

\* timeout() from the push of the record to the end of the emit of "timeout"
timeoutEmit(e) ==
    LET problem == CurrentProblem(e)
        e1 == Push(e, [ BlankAnswer(problem.id) EXCEPT
                          !.timedOut = TRUE, !.correct = FALSE ])
    IN  emit(e1, "timeout",
             [ problemId |-> problem.id, index |-> e1.currentIndex,
               total |-> Len(e1.problems) ])

timeout(e, d) ==
    IF e.state # "practicing" THEN e
    ELSE IF ~HasCurrent(e) THEN Throw(e)            \* problem.id of undefined
    ELSE advanceOrComplete(timeoutEmit(e), d)

getSnapshot(e) ==
    [ problems |-> e.problems, allProblems |-> e.allProblems,
      answers |-> e.answers, context |-> e.context,
      maxProblems |-> e.maxProblems ]

\* restoreSession that goes back to the first question
restoreSessionAtStart(e, snap) ==
    LET e1 == [ e EXCEPT !.problems = snap.problems,
                         !.allProblems = snap.allProblems,
                         !.answers = snap.answers,
                         !.context = snap.context,
                         !.maxProblems = snap.maxProblems,
                         !.currentIndex = 0 ]
    IN  setState(resetQuestionState(e1), "idle")

restoreSession(e, snap) ==
    LET e1 == [ e EXCEPT !.problems = snap.problems,
                         !.allProblems = snap.allProblems,
                         !.answers = snap.answers,
                         !.context = snap.context,
                         !.maxProblems = snap.maxProblems,
                         !.currentIndex = Len(snap.answers) ]
    IN  setState(resetQuestionState(e1), "idle")

resume(e, d) ==
    IF e.state # "idle" \/ Len(e.problems) = 0 THEN e
    ELSE IF e.currentIndex >= Len(e.problems)
    THEN complete(setState(e, "practicing"))
    ELSE emitCurrentQuestion(setState(e, "practicing"), d)

-----------------------------------------------------------------------------
(* The state machine: one action per public method *)

\* the listener functions a caller registers
Fns == { "f", "g" }

\* the events the callers of the model listen to
ListenedEvents == { "stateChange", "questionShow" }

\* the context and the problemTracking a caller gives loadProblems
NoContext == [ k \in { } |-> "" ]

UnitContext == [ unitTitle |-> "Unit 1" ]

\* a caller that keeps no array and no context object
NoCaller == [ problems |-> << >>, context |-> NoContext ]

StoredTracking == Tracking([ id \in { "m1" } |-> TrackingEntry(1, 0, DaysAgo(0)) ])

\* the values of #problemTracking: null until a load, and after reset()
TrackingOptions == { NoTracking, StoredTracking }

\* the option indices a caller passes to selectOption
SelectIndices == 0 .. 1

\* the option indices a caller passes to toggleMultiSelect
ToggleIndices == 0 .. 2

\* the positions a caller passes to moveOrderingItem: those of a three-item
\* list, and one beyond at each end
MovePositions == -1 .. 3

\* the draws #emitCurrentQuestion makes when it shows question i of ps: those
\* of one shuffleArray call on the items of an ordering question, none for a
\* question of another type or when there is no question i
DisplayDraws(ps, i) ==
    Draws(IF (i + 1) \in DOMAIN ps /\ TypeOf(Problem(ps[i + 1])) = "ordering"
          THEN Len(Problem(ps[i + 1]).items)
          ELSE 0)

\* A value given to validateSessionSummary.  kind: what the value is; for an
\* object, its properties: timestamp (a string, or "absent"), score (absent,
\* null, or an object whose correct and total are a number, a string or
\* absent) and results (absent, an array, or an object).
Input(kind, timestamp, scoreValue, results) ==
    [ kind |-> kind, timestamp |-> timestamp, score |-> scoreValue,
      results |-> results ]

ScoreValue(kind, correct, total) == [ kind |-> kind, correct |-> correct, total |-> total ]

\* undefined: nothing was given to the import flow yet
Undefined == Input("undefined", "absent", ScoreValue("absent", "absent", "absent"), "absent")

\* no validation made yet
NoReport == [ valid |-> FALSE, errors |-> << >> ]

\* the tracking map {}: no problem has an entry
NoEntries == << >>

Init ==
    /\ state = "idle"
    /\ listeners = [ n \in EventNames |-> << >> ]
    /\ typeWeights = MergeWeights(DEFAULT_TYPE_WEIGHTS, NoOverrides)
    /\ problems = << >>
    /\ allProblems = << >>
    /\ maxProblems = 0
    /\ currentIndex = 0
    /\ answers = << >>
    /\ context = NoContext
    /\ problemTracking = NoTracking
    /\ answered = FALSE
    /\ multiSelectSelected = << >>
    /\ orderingOrder = << >>
    /\ twoStageIndex = 0
    /\ twoStageAnswers = << >>
    /\ emitted = << >>
    /\ delivered = << >>
    /\ threw = FALSE
    /\ tags = InitialTags
    /\ shared = { }
    /\ caller = NoCaller
    /\ sessions = << >>
    /\ trackingMap = NoEntries
    /\ imported = Undefined
    /\ report = NoReport

\* a call returned (or threw) leaving the engine as e
Assign(e) ==
    /\ state' = e.state
    /\ listeners' = e.listeners
    /\ typeWeights' = e.typeWeights
    /\ problems' = e.problems
    /\ allProblems' = e.allProblems
    /\ maxProblems' = e.maxProblems
    /\ currentIndex' = e.currentIndex
    /\ answers' = e.answers
    /\ context' = e.context
    /\ problemTracking' = e.problemTracking
    /\ answered' = e.answered
    /\ multiSelectSelected' = e.multiSelectSelected
    /\ orderingOrder' = e.orderingOrder
    /\ twoStageIndex' = e.twoStageIndex
    /\ twoStageAnswers' = e.twoStageAnswers
    /\ emitted' = e.emitted
    /\ delivered' = e.delivered
    /\ threw' = e.threw
    /\ tags' = e.tags
    /\ shared' = e.shared
    /\ caller' = e.caller
    /\ UNCHANGED appVars

\* (the result of the handler is computed once, then assigned)
Commit(result) == \E e \in { result } : Assign(e)

On ==
    \E event \in ListenedEvents, fn \in Fns :
        /\ Len(listeners[event]) < MaxListeners
        /\ Commit(on(Engine, event, fn))

Off ==
    \E event \in ListenedEvents, fn \in Fns :
        /\ Commit(off(Engine, event, fn))

\* the outcomes of weightedShuffle for the arguments the model passes
ShuffleOutcomes ==
    [ tw \in MergedWeights, pool \in Pools \cup WeightedPools \cup NumericPools,
      tracking \in TrackingOptions |->
        weightedShuffle(pool, tw, SRWeightsOf(pool, tracking)) ]

LoadProblems ==
    \E pool \in Pools, cap \in 0 .. MaxCap :
        \E drawn \in ShuffleOutcomes[typeWeights, pool, StoredTracking] :
            Commit(loadProblems(Engine, pool, cap, UnitContext, StoredTracking, drawn))

Start ==
    \E d \in DisplayDraws(problems, 0) :
        Commit(start(Engine, d))

NextQuestion ==
    \E d \in DisplayDraws(problems, currentIndex + 1) :
        Commit(next(Engine, d))

Retry ==
    \E drawn \in ShuffleOutcomes[typeWeights, allProblems, problemTracking] :
        \E d \in DisplayDraws(drawn, 0) :
            Commit(retry(Engine, drawn, d))

Reset ==
    Commit(reset(Engine))

\* the answer log is below the bound of the model
LogHasRoom == Len(answers) < MaxAnswers

SelectOption ==
    \E index \in SelectIndices :
        /\ LogHasRoom
        /\ Commit(selectOption(Engine, index))

\* (the caller toggles options while a multi-select question is shown, or
\* outside a question; a toggle on a question of another type changes only
\* the selection, which no method reads before the next question resets it)
ToggleMultiSelect ==
    \E index \in ToggleIndices :
        /\ \/ state # "practicing"
           \/ /\ HasCurrent(Engine)
              /\ TypeOf(CurrentProblem(Engine)) = "multi-select"
        /\ Commit(toggleMultiSelect(Engine, index))

SubmitMultiSelect ==
    /\ LogHasRoom
    /\ Commit(submitMultiSelect(Engine))

SubmitNumeric ==
    \E rawString \in NumericInputs :
        /\ LogHasRoom
        /\ Commit(submitNumeric(Engine, rawString))

MoveOrderingItem ==
    \E fromIndex \in MovePositions, toIndex \in MovePositions :
        Commit(moveOrderingItem(Engine, fromIndex, toIndex))

SubmitOrdering ==
    /\ LogHasRoom
    /\ Commit(submitOrdering(Engine))

Skip ==
    \E d \in DisplayDraws(problems, currentIndex + 1) :
        /\ LogHasRoom
        /\ Commit(skip(Engine, d))

Timeout ==
    \E d \in DisplayDraws(problems, currentIndex + 1) :
        /\ LogHasRoom
        /\ Commit(timeout(Engine, d))

\* getSessionSummary() returns a value and assigns nothing; it throws when a
\* result cannot be built
GetSessionSummary ==
    Commit([ Engine EXCEPT !.threw = getSessionSummary(Engine).threw ])

\* getSnapshot() returns a value and assigns nothing
GetSnapshot ==
    Commit(Engine)

\* restoreSession(snapshot): the caller saves a snapshot whenever the session
\* changes and restores the one it saved last, so the argument is the
\* snapshot of the session as it stands
RestoreSession ==
    Commit(restoreSession(Engine, getSnapshot(Engine)))

Resume ==
    \E d \in DisplayDraws(problems, currentIndex) :
        Commit(resume(Engine, d))

Next ==
    \/ LoadProblems
    \/ Start
    \/ NextQuestion
    \/ Retry
    \/ Reset
    \/ SelectOption
    \/ ToggleMultiSelect
    \/ SubmitMultiSelect
    \/ SubmitNumeric
    \/ MoveOrderingItem
    \/ SubmitOrdering
    \/ Skip
    \/ Timeout
    \/ GetSessionSummary
    \/ GetSnapshot
    \/ RestoreSession
    \/ Resume

Spec == Init /\ [][Next]_vars

\* The engine with listeners: callers register and remove listeners for two
\* event names and run sessions of one pool of two questions.
ListenedPool == << "t1", "m1" >>

LoadListened ==
    \E drawn \in ShuffleOutcomes[typeWeights, ListenedPool, StoredTracking] :
        Commit(loadProblems(Engine, ListenedPool, 0, UnitContext, StoredTracking, drawn))

NextListened ==
    \/ On
    \/ Off
    \/ LoadListened
    \/ Start
    \/ NextQuestion
    \/ SelectOption
    \/ Skip

SpecListened == Init /\ [][NextListened]_vars

\* The engine built with typeWeights: new OpenQuizzer({ typeWeights }) with
\* one of the options, then loads, sessions and retries.
InitWeighted ==
    /\ state = "idle"
    /\ listeners = [ n \in EventNames |-> << >> ]
    /\ typeWeights \in MergedWeights
    /\ problems = << >>
    /\ allProblems = << >>
    /\ maxProblems = 0
    /\ currentIndex = 0
    /\ answers = << >>
    /\ context = NoContext
    /\ problemTracking = NoTracking
    /\ answered = FALSE
    /\ multiSelectSelected = << >>
    /\ orderingOrder = << >>
    /\ twoStageIndex = 0
    /\ twoStageAnswers = << >>
    /\ emitted = << >>
    /\ delivered = << >>
    /\ threw = FALSE
    /\ tags = InitialTags
    /\ shared = { }
    /\ caller = NoCaller
    /\ sessions = << >>
    /\ trackingMap = NoEntries
    /\ imported = Undefined
    /\ report = NoReport

LoadWeighted ==
    \E pool \in WeightedPools, cap \in 0 .. MaxCap :
        \E drawn \in ShuffleOutcomes[typeWeights, pool, StoredTracking] :
            Commit(loadProblems(Engine, pool, cap, UnitContext, StoredTracking, drawn))

NextWeighted ==
    \/ LoadWeighted
    \/ Start
    \/ Retry
    \/ Skip
    \/ NextQuestion

SpecWeighted == InitWeighted /\ [][NextWeighted]_vars

\* The numeric sessions: one numeric question is loaded, shown, answered
\* with one of the inputs, and the session is ended.
LoadNumeric ==
    \E pool \in NumericPools :
        \E drawn \in ShuffleOutcomes[typeWeights, pool, StoredTracking] :
            Commit(loadProblems(Engine, pool, 0, UnitContext, StoredTracking, drawn))

SubmitGraded ==
    \E rawString \in GradedInputs :
        /\ LogHasRoom
        /\ Commit(submitNumeric(Engine, rawString))

NextNumeric ==
    \/ LoadNumeric
    \/ Start
    \/ SubmitGraded
    \/ NextQuestion

SpecNumeric == Init /\ [][NextNumeric]_vars

\* The engine and a caller that keeps the objects it exchanges with it: the
\* array and the context it gave loadProblems, and the summaries it was
\* given, and changes them in place.
SharedPools == { << "m1", "m2" >>, << "m1", "n1" >> }

\* the tag a caller pushes, the question it adds, the title it sets
NewTag == "extra"

NewQuestion == "n1"

NewTitle == "Unit 2"

LoadShared ==
    \E pool \in SharedPools :
        \E drawn \in ShuffleOutcomes[typeWeights, pool, StoredTracking] :
            Commit([ loadProblems(Engine, pool, 0, UnitContext, StoredTracking, drawn)
                       EXCEPT !.caller = [ problems |-> pool, context |-> UnitContext ] ])

MutateSummary ==
    \E part \in SummaryParts, i \in DOMAIN answers :
        /\ ~getSessionSummary(Engine).threw
        /\ \A id \in DOMAIN tags : Len(tags[id]) < MaxTags
        /\ Commit(mutateSummary(Engine, getSessionSummary(Engine).value, part, i, NewTag))

CallerPush ==
    /\ Len(caller.problems) < MaxCallerLen
    /\ Commit(callerPush(Engine, NewQuestion))

CallerClear ==
    Commit(callerClear(Engine))

CallerSetContext ==
    Commit(callerSetContext(Engine, NewTitle))

NextShared ==
    \/ LoadShared
    \/ Start
    \/ SelectOption
    \/ Skip
    \/ Timeout
    \/ NextQuestion
    \/ Retry
    \/ GetSessionSummary
    \/ MutateSummary
    \/ CallerPush
    \/ CallerClear
    \/ CallerSetContext

SpecShared == Init /\ [][NextShared]_vars

-----------------------------------------------------------------------------
(* Exported standalone utilities: stored session summaries *)

\* Timestamps of stored summaries.  Sooner and SoonerMs are two strings for
\* the same instant.
Sooner == "2025-01-01T00:00:00Z"

SoonerMs == "2025-01-01T00:00:00.000Z"

Later == "2025-01-02T00:00:00Z"

\* new Date(timestamp), in days since 2025-01-01
DateOf(timestamp) == IF timestamp = Later THEN 1 ELSE 0

\* a breakdown entry { correct, total, percentage }
Entry(correct, total, percentage) ==
    [ correct |-> correct, total |-> total, percentage |-> percentage ]

NoBreakdown == [ k \in { } |-> Entry(0, 0, 0) ]

\* makeSession({ timestamp, correct, total, skipped }): a summary with no
\* score.timedOut, no breakdown and no context.  has: the optional
\* properties the object has; a property it lacks reads as undefined.
makeSession(timestamp, correct, total, skipped) ==
    [ timestamp |-> timestamp,
      score |-> [ correct |-> correct, total |-> total,
                  percentage |-> IF total > 0 THEN RoundPercent(correct, total) ELSE 0,
                  skipped |-> skipped, timedOut |-> 0 ],
      results |-> << >>,
      breakdownByType |-> NoBreakdown,
      breakdownByTag |-> NoBreakdown,
      context |-> NoContext,
      has |-> { "skipped" } ]

\* a result of a summary, as #buildSummaryResult makes it (the properties
\* computeAggregateStats reads)
Result(id, correct, skipped, timedOut) ==
    [ id |-> id, question |-> Problem(id).question, correct |-> correct,
      skipped |-> skipped, timedOut |-> timedOut ]

\* The summaries the history holds: those of the aggregate tests, a summary
\* as getSessionSummary returns it (every property present), one with the
\* tag "constructor", one whose only breakdown entry has total 0, and one of
\* the same instant as another under a different timestamp string.
StoredSummaries ==
    { makeSession(Sooner, 3, 5, 0),
      makeSession(Later, 7, 10, 0),
      [ makeSession(Sooner, 4, 5, 1) EXCEPT
          !.breakdownByType = [ t \in { "multiple-choice" } |-> Entry(2, 3, 67) ],
          !.has = @ \cup { "breakdownByType" } ],
      [ makeSession(Later, 3, 5, 0) EXCEPT
          !.breakdownByType = [ t \in { "multiple-choice", "numeric-input" } |->
                                  IF t = "multiple-choice" THEN Entry(4, 5, 80)
                                  ELSE Entry(1, 2, 50) ],
          !.context = [ unitTitle |-> "Estimation" ],
          !.has = @ \cup { "breakdownByType", "context" } ],
      [ makeSession(Sooner, 3, 5, 0) EXCEPT
          !.breakdownByTag = [ t \in { "caching", "consistency" } |->
                                 IF t = "caching" THEN Entry(1, 2, 50)
                                 ELSE Entry(1, 1, 100) ],
          !.has = @ \cup { "breakdownByTag" } ],
      [ makeSession(Later, 2, 2, 0) EXCEPT
          !.breakdownByTag = [ t \in { "constructor" } |-> Entry(2, 2, 100) ],
          !.has = @ \cup { "breakdownByTag" } ],
      [ makeSession(SoonerMs, 0, 0, 2) EXCEPT
          !.breakdownByType = [ t \in { "ordering" } |-> Entry(0, 0, 0) ],
          !.breakdownByTag = [ t \in { "caching" } |-> Entry(0, 0, 0) ],
          !.has = @ \cup { "breakdownByType", "breakdownByTag" } ],
      [ makeSession(Later, 1, 2, 1) EXCEPT
          !.score.timedOut = 1,
          !.results = << Result("m1", TRUE, FALSE, FALSE),
                         Result("n1", FALSE, FALSE, FALSE),
                         Result("o1", FALSE, TRUE, FALSE),
                         Result("s1", FALSE, FALSE, TRUE) >>,
          !.breakdownByType = [ t \in { "multiple-choice", "numeric-input" } |->
                                  IF t = "multiple-choice" THEN Entry(1, 1, 100)
                                  ELSE Entry(0, 1, 0) ],
          !.breakdownByTag = [ t \in { "caching", "consistency" } |-> Entry(1, 1, 100) ],
          !.context = [ unitTitle |-> "Unit 1" ],
          !.has = { "skipped", "timedOut", "breakdownByType", "breakdownByTag",
                    "context" } ] }

RECURSIVE FilterSeen(_, _)
\* sessions.filter(...) of deduplicateSessions, from a list and the Set seen
FilterSeen(list, seen) ==
    IF list = << >> THEN << >>
    ELSE IF Head(list).timestamp \in seen
         THEN FilterSeen(Tail(list), seen)
         ELSE << Head(list) >> \o
              FilterSeen(Tail(list), seen \cup { Head(list).timestamp })

\* deduplicateSessions keeping the last summary of each timestamp
deduplicateSessionsKeepingLast(list) ==
    LET Reverse(s) == [ i \in DOMAIN s |-> s[Len(s) + 1 - i] ]
    IN  Reverse(FilterSeen(Reverse(list), { }))

deduplicateSessions(list) == FilterSeen(list, { })

RECURSIVE Insert(_, _)
\* Array.prototype.sort (stable) of records by their key, ascending
Insert(item, sorted) ==
    IF sorted = << >> THEN << item >>
    ELSE IF item.key < Head(sorted).key
         THEN << item >> \o sorted
         ELSE << Head(sorted) >> \o Insert(item, Tail(sorted))

RECURSIVE SortByKey(_)
SortByKey(list) ==
    IF list = << >> THEN << >>
    ELSE Insert(list[Len(list)], SortByKey(SubSeq(list, 1, Len(list) - 1)))

RECURSIVE GradedResults(_)
\* the graded results of the summaries of a list, in order
GradedResults(list) ==
    IF list = << >> THEN << >>
    ELSE LET results == Head(list).results
             Graded(r) == ~r.skipped /\ ~r.timedOut
         IN  SelectSeq(results, Graded) \o GradedResults(Tail(list))

RECURSIVE FirstIds(_, _)
\* the ids of a list of results in the order of their first occurrence:
\* Object.values(problemStats)
FirstIds(results, seen) ==
    IF results = << >> THEN << >>
    ELSE IF Head(results).id \in seen
         THEN FirstIds(Tail(results), seen)
         ELSE << Head(results).id >> \o
              FirstIds(Tail(results), seen \cup { Head(results).id })

\* the key-wise sum of one breakdown over the summaries that have it, with
\* the percentages of addPercentages
mergeBreakdowns(list, name) ==
    LET Of(s)  == IF name \in s.has THEN s[name] ELSE NoBreakdown
        keys   == UNION { DOMAIN Of(list[i]) : i \in DOMAIN list } \ PrototypeKeys
        Sum(k, field) == SumSeq([ i \in DOMAIN list |->
                                    IF k \in DOMAIN Of(list[i])
                                    THEN Of(list[i])[k][field] ELSE 0 ])
    IN  [ k \in keys |->
            Entry(Sum(k, "correct"), Sum(k, "total"),
                  IF Sum(k, "total") > 0
                  THEN RoundPercent(Sum(k, "correct"), Sum(k, "total")) ELSE 0) ]

\* byUnit / byChapter: the scores of the summaries by context[title]
groupByContext(list, title) ==
    LET Key(s) == IF "context" \in s.has /\ title \in DOMAIN s.context
                     /\ s.context[title] # ""
                  THEN { s.context[title] } ELSE { }
        keys   == UNION { Key(list[i]) : i \in DOMAIN list } \ PrototypeKeys
        Sum(k, field) == SumSeq([ i \in DOMAIN list |->
                                    IF k \in Key(list[i])
                                    THEN list[i].score[field] ELSE 0 ])
    IN  [ k \in keys |->
            Entry(Sum(k, "correct"), Sum(k, "total"),
                  IF Sum(k, "total") > 0
                  THEN RoundPercent(Sum(k, "correct"), Sum(k, "total")) ELSE 0) ]

computeAggregateStats(list) ==
    LET Score(i, field) == IF field \in { "skipped", "timedOut" }
                               /\ field \notin list[i].has
                           THEN 0 ELSE list[i].score[field]
        Total(field)    == SumSeq([ i \in DOMAIN list |-> Score(i, field) ])
        graded          == GradedResults(list)
        ids             == FirstIds(graded, { })
        Seen(id)        == Cardinality({ k \in DOMAIN graded : graded[k].id = id })
        Wrong(id)       == Cardinality({ k \in DOMAIN graded :
                                           graded[k].id = id /\ ~graded[k].correct })
        IsMissed(id)    == id \notin PrototypeKeys /\ Wrong(id) > 0
        missed          == SelectSeq(ids, IsMissed)
        byWrongCount    == SortByKey([ k \in DOMAIN missed |->
                                         [ key |-> 0 - Wrong(missed[k]),
                                           id |-> missed[k] ] ])
        top             == Slice(byWrongCount, 10)
        byDate          == SortByKey([ i \in DOMAIN list |->
                                         [ key |-> DateOf(list[i].timestamp),
                                           index |-> i ] ])
    IN  [ sessionCount |-> Len(list),
          totalAnswered |-> Total("total"),
          totalCorrect |-> Total("correct"),
          overallPercentage |-> IF Total("total") > 0
                                THEN RoundPercent(Total("correct"), Total("total"))
                                ELSE 0,
          totalSkipped |-> Total("skipped"),
          totalTimedOut |-> Total("timedOut"),
          byType |-> mergeBreakdowns(list, "breakdownByType"),
          byTag |-> mergeBreakdowns(list, "breakdownByTag"),
          byUnit |-> groupByContext(list, "unitTitle"),
          byChapter |-> groupByContext(list, "chapterTitle"),
          trend |-> [ k \in DOMAIN byDate |->
                        LET s == list[byDate[k].index]
                        IN  [ timestamp |-> s.timestamp,
                              percentage |-> s.score.percentage,
                              correct |-> s.score.correct,
                              total |-> s.score.total ] ],
          mostMissed |-> [ k \in DOMAIN top |->
                             LET id == top[k].id
                             IN  [ id |-> id, question |-> Problem(id).question,
                                   wrongCount |-> Wrong(id), seenCount |-> Seen(id),
                                   percentage |-> IF Seen(id) > 0
                                                  THEN RoundPercent(Wrong(id), Seen(id))
                                                  ELSE 0 ] ] ]

\* The history: the application appends a summary, removes duplicates and
\* computes the statistics of what it holds.
AddSession ==
    \E s \in StoredSummaries :
        /\ Len(sessions) < MaxSessions
        /\ sessions' = Append(sessions, s)
        /\ UNCHANGED << engineVars, trackingMap, imported, report >>

DeduplicateSessions ==
    /\ sessions' = deduplicateSessions(sessions)
    /\ UNCHANGED << engineVars, trackingMap, imported, report >>

\* computeAggregateStats returns a value and assigns nothing
ComputeAggregateStats ==
    /\ computeAggregateStats(sessions).sessionCount = Len(sessions)
    /\ UNCHANGED vars

NextStats ==
    \/ AddSession
    \/ DeduplicateSessions
    \/ ComputeAggregateStats

SpecStats == Init /\ [][NextStats]_vars

-----------------------------------------------------------------------------
(* Exported standalone utilities: validateSessionSummary *)

\* Date.parse(string): NaN for a string that is no date
DateParse(string) ==
    IF string \in { Sooner, SoonerMs, Later } THEN Num(DateOf(string), 1) ELSE NaN

\* minimalSession() of the tests
minimalSession == Input("object", SoonerMs, ScoreValue("object", "number", "number"), "array")

\* null, [1, 2], 42, "hello" and undefined
NonObjects ==
    { Input(kind, "absent", ScoreValue("absent", "absent", "absent"), "absent") :
        kind \in { "null", "array", "number", "string", "undefined" } }

\* the objects: minimalSession() with properties deleted or replaced
Objects ==
    { Input("object", timestamp, scoreValue, results) :
        timestamp \in { "absent", "", "not-a-date", SoonerMs },
        scoreValue \in { ScoreValue("absent", "absent", "absent"),
                    ScoreValue("null", "absent", "absent") }
                 \cup { ScoreValue("object", correct, total) :
                          correct \in { "number", "string", "absent" },
                          total \in { "number", "absent" } },
        results \in { "absent", "array", "object" } }

ImportInputs == NonObjects \cup Objects

\* validateSessionSummary that returns at the first failed check
validateSessionSummaryFirstError(obj) ==
    IF obj.kind # "object"
    THEN [ valid |-> FALSE, errors |-> << "Input must be a plain object" >> ]
    ELSE LET badTimestamp == obj.timestamp \in { "absent", "" }
                                \/ IsNaN(DateParse(obj.timestamp))
             badScore     == obj.score.kind \in { "absent", "null" }
                                \/ obj.score.correct # "number"
                                \/ obj.score.total # "number"
             errors       == IF badTimestamp THEN << "Missing or invalid timestamp" >>
                             ELSE IF badScore
                             THEN << "Missing or invalid score (needs correct and total)" >>
                             ELSE IF obj.results # "array"
                             THEN << "Missing results array" >>
                             ELSE << >>
         IN  [ valid |-> errors = << >>, errors |-> errors ]

validateSessionSummary(obj) ==
    \* !obj || typeof obj !== "object" || Array.isArray(obj)
    IF obj.kind # "object"
    THEN [ valid |-> FALSE, errors |-> << "Input must be a plain object" >> ]
    ELSE LET \* !obj.timestamp || isNaN(Date.parse(obj.timestamp))
             badTimestamp == obj.timestamp \in { "absent", "" }
                                \/ IsNaN(DateParse(obj.timestamp))
             \* !obj.score || typeof obj.score.correct !== "number" || ...
             badScore     == obj.score.kind \in { "absent", "null" }
                                \/ obj.score.correct # "number"
                                \/ obj.score.total # "number"
             \* !Array.isArray(obj.results)
             badResults   == obj.results # "array"
             errors       ==
                (IF badTimestamp THEN << "Missing or invalid timestamp" >> ELSE << >>)
                \o (IF badScore
                    THEN << "Missing or invalid score (needs correct and total)" >>
                    ELSE << >>)
                \o (IF badResults THEN << "Missing results array" >> ELSE << >>)
         IN  [ valid |-> Len(errors) = 0, errors |-> errors ]

\* The import flow: the user picks a file, the application validates what it
\* holds.
ChooseFile ==
    \E obj \in ImportInputs :
        /\ imported' = obj
        /\ report' = NoReport
        /\ UNCHANGED << engineVars, sessions, trackingMap >>

Validate ==
    /\ report' = validateSessionSummary(imported)
    /\ UNCHANGED << engineVars, sessions, trackingMap, imported >>

NextImport ==
    \/ ChooseFile
    \/ Validate

SpecImport == Init /\ [][NextImport]_vars

\* ---- the tracking map the application keeps between sessions ----

\* a stored entry; lastSeen is a timestamp or null
StoredEntry(seen, correct, lastSeen) ==
    [ seen |-> seen, correct |-> correct, lastSeen |-> lastSeen ]

TrackedIds == { "m1", "n1" }

TrackedOutcomes == { "correct", "wrong", "skipped", "timedOut" }

TrackedResult(id, outcome) ==
    [ id |-> id, correct |-> outcome = "correct",
      skipped |-> outcome = "skipped", timedOut |-> outcome = "timedOut" ]

TrackedResults == { TrackedResult(id, outcome) : id \in TrackedIds, outcome \in TrackedOutcomes }

\* a summary as updateProblemTracking reads it
TrackedSummary(kind, timestamp, results) ==
    [ kind |-> kind, timestamp |-> timestamp, results |-> results ]

\* null, a summary whose results is not an array, and summaries of up to
\* two results
TrackedSummaries ==
    { TrackedSummary("null", Sooner, << >>), TrackedSummary("no results", Sooner, << >>) }
    \cup { TrackedSummary("summary", timestamp, results) :
             timestamp \in { Sooner, Later },
             results \in { << >> } \cup { << r >> : r \in TrackedResults }
                         \cup { << r1, r2 >> : r1 \in TrackedResults, r2 \in TrackedResults } }

\* the loop of updateProblemTracking over sessionSummary.results
RECURSIVE trackResults(_, _, _)
trackResults(tracking, results, timestamp) ==
    IF results = << >> THEN tracking
    ELSE LET result  == Head(results)
             entry   == IF result.id \in DOMAIN tracking THEN tracking[result.id]
                        ELSE StoredEntry(0, 0, Null)
             updated == StoredEntry(entry.seen + 1,
                                    entry.correct + (IF result.correct THEN 1 ELSE 0),
                                    timestamp)
         IN  trackResults(IF result.skipped \/ result.timedOut THEN tracking
                          ELSE (result.id :> updated) @@ tracking,
                          Tail(results), timestamp)

\* updateProblemTracking working on the caller's map instead of on copies
updateProblemTrackingInPlace(existingTracking, sessionSummary) ==
    LET tracking == IF sessionSummary.kind = "summary"
                    THEN trackResults(existingTracking, sessionSummary.results,
                                      sessionSummary.timestamp)
                    ELSE existingTracking
    IN  [ value |-> tracking, existingTracking |-> tracking ]

\* updateProblemTracking: value is the map returned, existingTracking the
\* caller's map as the call leaves it (entries are copied before the loop)
updateProblemTracking(existingTracking, sessionSummary) ==
    [ value |-> IF sessionSummary.kind = "summary"
                THEN trackResults(existingTracking, sessionSummary.results,
                                  sessionSummary.timestamp)
                ELSE existingTracking,
      existingTracking |-> existingTracking ]

\* (new Date(now).getTime() - new Date(lastSeen).getTime()) / 86400000
daysSince(now, lastSeen) == DateOf(now) - DateOf(lastSeen)

\* computeProficiency(tracking[id], now)
ProficiencyAt(tracking, id, now) ==
    IF id \notin DOMAIN tracking
    THEN computeProficiency(TrackingEntry(0, 0, NoDate), FALSE)
    ELSE computeProficiency(
             TrackingEntry(tracking[id].seen, tracking[id].correct,
                           IF tracking[id].lastSeen = Null THEN NoDate
                           ELSE DaysAgo(daysSince(now, tracking[id].lastSeen))),
             TRUE)

\* the application folds a finished session into the stored map
UpdateTracking ==
    \E sessionSummary \in TrackedSummaries :
        /\ \A id \in DOMAIN trackingMap : trackingMap[id].seen < MaxSeen
        /\ trackingMap' = updateProblemTracking(trackingMap, sessionSummary).value
        /\ UNCHANGED << engineVars, sessions, imported, report >>

NextTracking == UpdateTracking

SpecTracking == Init /\ [][NextTracking]_vars

\* ---- one session driven from idle to its end ----

\* the questions are loaded into an idle engine
LoadSession ==
    /\ state = "idle"
    /\ LoadProblems

\* the session is started from idle
StartSession ==
    /\ state = "idle"
    /\ Start

\* the driver answers, skips or lets the timer run out while practicing and
\* calls next while answered (the operations are no-ops in the other states)
NextSession ==
    \/ LoadSession
    \/ StartSession
    \/ SelectOption
    \/ ToggleMultiSelect
    \/ SubmitMultiSelect
    \/ SubmitNumeric
    \/ MoveOrderingItem
    \/ SubmitOrdering
    \/ Skip
    \/ Timeout
    \/ NextQuestion

SpecSession == Init /\ [][NextSession]_vars

\* ---- listeners that call back into the engine ----

\* what a listener does when it is called: skip() or timeout() the first
\* time it is called, next() every time
Callbacks == [ skip |-> "callsSkip", timeout |-> "callsTimeout",
               stateChange |-> "callsNext" ]

Calls(e, event) == Callbacks[event] \in Range(e.listeners[event])

\* skip() with the listeners' calls made where #emit makes them: when a
\* listener of "skip" calls skip(), the nested skip() runs from its guard to its end inside the emit of "skip", and the
\* outer call goes on from the fields the nested call left (each step is
\* taken from the value of the one before)
skipReentrant(e, d, dNested) ==
    IF e.state # "practicing" THEN e
    ELSE IF ~HasCurrent(e) THEN Throw(e)
    ELSE CHOOSE r \in { advanceOrComplete(nested, d) :
                          nested \in { IF Calls(e, "skip")
                                       THEN skip(emittedSkip, dNested)
                                       ELSE emittedSkip :
                                         emittedSkip \in { skipEmit(e) } } } : TRUE

\* timeout(), likewise, when a listener of "timeout" calls timeout()
timeoutReentrant(e, d, dNested) ==
    IF e.state # "practicing" THEN e
    ELSE IF ~HasCurrent(e) THEN Throw(e)
    ELSE CHOOSE r \in { advanceOrComplete(nested, d) :
                          nested \in { IF Calls(e, "timeout")
                                       THEN timeout(emittedTimeout, dNested)
                                       ELSE emittedTimeout :
                                         emittedTimeout \in { timeoutEmit(e) } } } : TRUE

\* selectOption() on a multiple-choice question: when a listener of
\* "stateChange" calls next(), the nested next() runs inside
\* #setState("answered"), before "optionSelected" is emitted; in the other
\* state changes the listener's next() is a no-op
selectOptionReentrant(e, index, dNested) ==
    IF e.state # "practicing" THEN e
    ELSE IF ~HasCurrent(e) THEN Throw(e)
    ELSE IF e.answered THEN e
    ELSE LET problem   == CurrentProblem(e)
             isCorrect == "correct" \in DOMAIN problem /\ index = problem.correct
             e1 == Push([ e EXCEPT !.answered = TRUE ],
                        [ BlankAnswer(problem.id) EXCEPT
                            !.shape = "option", !.selected = index,
                            !.correct = isCorrect ])
             payload == [ index |-> index, correct |-> isCorrect,
                          correctIndex |-> IF "correct" \in DOMAIN problem
                                           THEN problem.correct ELSE -1,
                          isFinalStage |-> FALSE, allCorrect |-> FALSE ]
         IN  CHOOSE r \in { emit(nested, "optionSelected", payload) :
                              nested \in { IF Calls(e, "stateChange")
                                           THEN next(changed, dNested)
                                           ELSE changed :
                                             changed \in { setState(e1, "answered") } } } : TRUE

\* sessions of multiple-choice questions
ReentrantPools == { << "m1" >>, << "m1", "m2" >>, << "m2", "m1" >> }

OnCallback ==
    \E event \in DOMAIN Callbacks :
        /\ ~Calls(Engine, event)
        /\ Commit(on(Engine, event, Callbacks[event]))

OffCallback ==
    \E event \in DOMAIN Callbacks :
        Commit(off(Engine, event, Callbacks[event]))

LoadReentrant ==
    \E pool \in ReentrantPools :
        Commit(loadProblems(Engine, pool, 0, UnitContext, NoTracking, pool))

SkipReentrant ==
    \E d \in DisplayDraws(problems, currentIndex + 1),
       dNested \in DisplayDraws(problems, currentIndex + 1) :
        /\ Len(answers) + 2 <= MaxAnswers        \* the call can append two records
        /\ Commit(skipReentrant(Engine, d, dNested))

TimeoutReentrant ==
    \E d \in DisplayDraws(problems, currentIndex + 1),
       dNested \in DisplayDraws(problems, currentIndex + 1) :
        /\ Len(answers) + 2 <= MaxAnswers        \* the call can append two records
        /\ Commit(timeoutReentrant(Engine, d, dNested))

SelectOptionReentrant ==
    \E index \in SelectIndices, dNested \in DisplayDraws(problems, currentIndex + 1) :
        /\ LogHasRoom
        /\ Commit(selectOptionReentrant(Engine, index, dNested))

NextReentrant ==
    \/ OnCallback
    \/ OffCallback
    \/ LoadReentrant
    \/ Start
    \/ NextQuestion
    \/ SkipReentrant
    \/ TimeoutReentrant
    \/ SelectOptionReentrant

SpecReentrant == Init /\ [][NextReentrant]_vars

-----------------------------------------------------------------------------
(* Properties.  A property about a call is stated on the result of the      *)
(* method applied to the engine as it stands (Engine), for every argument   *)
(* the actions pass: it is an invariant of the reachable states.            *)

\* the call that returned r changed neither the answer log, nor the current
\* index, nor the state, and emitted nothing
Untouched(r) ==
    /\ r.answers = answers
    /\ r.currentIndex = currentIndex
    /\ r.state = state
    /\ r.emitted = << >>

\* C1: in idle, answered and complete, each of selectOption,
\* toggleMultiSelect, submitMultiSelect, submitNumeric, moveOrderingItem,
\* submitOrdering, skip and timeout is a no-op: the answer log, the current
\* index and the state are unchanged and no event is emitted (so a second
\* submission on a graded question adds no record and keeps the first).
C1_SubmissionsOutsidePracticing ==
    state # "practicing" =>
        /\ \A index \in SelectIndices : Untouched(selectOption(Engine, index))
        /\ \A index \in ToggleIndices : Untouched(toggleMultiSelect(Engine, index))
        /\ Untouched(submitMultiSelect(Engine))
        /\ \A rawString \in NumericInputs : Untouched(submitNumeric(Engine, rawString))
        /\ \A fromIndex \in MovePositions, toIndex \in MovePositions :
              Untouched(moveOrderingItem(Engine, fromIndex, toIndex))
        /\ Untouched(submitOrdering(Engine))
        /\ \A d \in DisplayDraws(problems, currentIndex + 1) :
              /\ Untouched(skip(Engine, d))
              /\ Untouched(timeout(Engine, d))

\* a graded question (one record, state answered) on which a further call
\* was made and emitted nothing
C1_Witness ==
    /\ state = "answered"
    /\ Len(answers) = 1
    /\ answers[1].shape = "option"
    /\ emitted = << >>
    /\ ~threw

\* the names of the events the call that returned r emitted, in order
EmittedNames(r) == [ k \in DOMAIN r.emitted |-> r.emitted[k].name ]

\* the call that returned r appended exactly one record to the answer log
AppendedOne(r) ==
    /\ Len(r.answers) = Len(answers) + 1
    /\ SubSeq(r.answers, 1, Len(answers)) = answers

\* the record the call that returned r appended
Appended(r) == r.answers[Len(r.answers)]

\* C2: the answer record at position i carries the id of the question at
\* position i of the session's question sequence, and the answer log is never
\* longer than the sequence.
C2_AnswersAlignWithSequence ==
    /\ Len(answers) <= Len(problems)
    /\ \A i \in DOMAIN answers :
          /\ i \in DOMAIN problems
          /\ answers[i].problemId = problems[i]

\* C3: next() in answered moves to practicing on the question at index + 1
\* and emits questionShow for it when the index is below N - 1, and otherwise
\* moves to complete; in idle, practicing and complete it changes neither
\* state, index nor answer log and emits nothing.
C3_NextAdvancesOrCompletes ==
    \A d \in DisplayDraws(problems, currentIndex + 1) :
        LET r == next(Engine, d)
        IN  IF state # "answered" THEN Untouched(r)
            ELSE IF currentIndex < Len(problems) - 1
            THEN /\ r.state = "practicing"
                 /\ r.currentIndex = currentIndex + 1
                 /\ r.answers = answers
                 /\ \E k \in DOMAIN r.emitted :
                       /\ r.emitted[k].name = "questionShow"
                       /\ r.emitted[k].payload.index = currentIndex + 1
                       /\ r.emitted[k].payload.problem = problems[currentIndex + 2]
            ELSE r.state = "complete"

\* C4: start() in idle with a non-empty question sequence moves to
\* practicing with index 0 and an empty answer log, emitting stateChange
\* {from: idle, to: practicing} and then questionShow for index 0; with an
\* empty question sequence it is a no-op (state idle, no event).
C4_StartFromIdle ==
    state = "idle" =>
        \A d \in DisplayDraws(problems, 0) :
            LET r == start(Engine, d)
            IN  IF Len(problems) = 0 THEN Untouched(r)
                ELSE /\ r.state = "practicing"
                     /\ r.currentIndex = 0
                     /\ r.answers = << >>
                     /\ EmittedNames(r) = << "stateChange", "questionShow" >>
                     /\ r.emitted[1].payload = [ from |-> "idle", to |-> "practicing" ]
                     /\ r.emitted[2].payload.index = 0
                     /\ r.emitted[2].payload.problem = problems[1]

\* a session just started from idle: the first question is shown
C4_Witness ==
    /\ state = "practicing"
    /\ currentIndex = 0
    /\ answers = << >>
    /\ Len(problems) = 2
    /\ Len(emitted) = 2
    /\ emitted[1].name = "stateChange"
    /\ emitted[1].payload.from = "idle"
    /\ emitted[2].name = "questionShow"

\* the two-stage question being shown
OnTwoStage ==
    /\ state = "practicing"
    /\ HasCurrent(Engine)
    /\ TypeOf(CurrentProblem(Engine)) = "two-stage"

\* C5: on a two-stage question with k stages each of the first k - 1
\* selectOption calls leaves the state practicing, appends no record and
\* emits exactly one twoStageAdvance event carrying that stage's correctness
\* and the text of the chosen option; the k-th call appends the single
\* record, holding k per-stage outcomes, and moves the state to answered.
C5_TwoStageStages ==
    OnTwoStage =>
        LET problem == CurrentProblem(Engine)
            k       == Len(problem.stages)
            stage   == problem.stages[twoStageIndex + 1]
        IN  /\ twoStageIndex < k
            /\ \A index \in SelectIndices :
                  LET r == selectOption(Engine, index)
                  IN  IF twoStageIndex < k - 1
                      THEN /\ r.state = "practicing"
                           /\ r.answers = answers
                           /\ EmittedNames(r) = << "twoStageAdvance" >>
                           /\ r.emitted[1].payload.stageResult.correct
                                = (index = stage.correct)
                           /\ r.emitted[1].payload.nextStage.previousAnswer
                                = stage.options[index + 1]
                      ELSE /\ r.state = "answered"
                           /\ AppendedOne(r)
                           /\ Len(Appended(r).stageAnswers) = k
                           /\ \A n \in DOMAIN r.emitted :
                                 r.emitted[n].name # "twoStageAdvance"

\* a two-stage question graded by its second selectOption call
C5_Witness ==
    /\ state = "answered"
    /\ answers # << >>
    /\ answers[Len(answers)].shape = "twoStage"
    /\ Len(answers[Len(answers)].stageAnswers) = 2
    /\ EmittedNames([ emitted |-> emitted ]) = << "stateChange", "optionSelected" >>

\* C6: the record of a two-stage question is correct iff every stage was
\* answered with that stage's correct option; a wrong answer at an earlier
\* stage makes the record incorrect even when the final stage is answered
\* correctly, and the score's correct count is then not incremented.
C6_TwoStageAllStagesCorrect ==
    LET problem == CurrentProblem(Engine)
        k       == Len(problem.stages)
    IN  (OnTwoStage /\ twoStageIndex = k - 1) =>
            \A index \in SelectIndices :
                LET r        == selectOption(Engine, index)
                    chosen   == [ j \in 1 .. k |->
                                    IF j < k THEN twoStageAnswers[j].selected ELSE index ]
                    allRight == \A j \in 1 .. k : chosen[j] = problem.stages[j].correct
                IN  /\ AppendedOne(r)
                    /\ Len(twoStageAnswers) = k - 1
                    /\ [ j \in 1 .. k |-> Appended(r).stageAnswers[j].selected ] = chosen
                    /\ Appended(r).correct <=> allRight
                    /\ score(r).correct
                         = score(Engine).correct + (IF allRight THEN 1 ELSE 0)

\* a two-stage record with the first stage wrong and the second right: the
\* record is incorrect and the score has no correct answer
C6_Witness ==
    /\ state = "answered"
    /\ Len(answers) = 1
    /\ answers[1].shape = "twoStage"
    /\ Len(answers[1].stageAnswers) = 2
    /\ ~answers[1].stageAnswers[1].correct
    /\ answers[1].stageAnswers[2].correct
    /\ ~answers[1].correct
    /\ score(Engine).correct = 0

\* skip() or timeout() returned r: one record flagged by the call, one event
\* of its name, then the next question or the completion
Bypassed(r, name) ==
    /\ AppendedOne(r)
    /\ ~Appended(r).correct
    /\ Appended(r).skipped <=> (name = "skip")
    /\ Appended(r).timedOut <=> (name = "timeout")
    /\ IF currentIndex < Len(problems) - 1
       THEN /\ r.currentIndex = currentIndex + 1
            /\ r.state = "practicing"
            /\ EmittedNames(r) = << name, "questionShow" >>
            /\ r.emitted[2].payload.index = currentIndex + 1
       ELSE /\ r.state = "complete"
            /\ EmittedNames(r) = << name, "stateChange", "complete" >>

\* C7: skip() (timeout()) in practicing appends exactly one record flagged
\* skipped (timedOut) with correct = false and emits one skip (timeout)
\* event; then, if more questions remain, it advances the index by one and
\* shows the next question, staying in practicing with no stateChange event;
\* on the last question it moves to complete and emits the complete event.
C7_SkipAndTimeout ==
    state = "practicing" =>
        \A d \in DisplayDraws(problems, currentIndex + 1) :
            /\ Bypassed(skip(Engine, d), "skip")
            /\ Bypassed(timeout(Engine, d), "timeout")

\* C8: in every reachable state the score's total is the number of records
\* neither skipped nor timed out, correct the number of those that are
\* correct (so correct <= total), skipped and timedOut count the bypassed
\* records, no record is both, and total + skipped + timedOut is the length
\* of the answer log; skipping the last question of a session in which every
\* question was skipped ends in complete with score {correct 0, total 0,
\* skipped N}.
C8_ScoreCounts ==
    LET s      == score(Engine)
        graded == { i \in DOMAIN answers : ~answers[i].skipped /\ ~answers[i].timedOut }
    IN  /\ s.total = Cardinality(graded)
        /\ s.correct = Cardinality({ i \in graded : answers[i].correct })
        /\ s.correct <= s.total
        /\ s.skipped = Cardinality({ i \in DOMAIN answers : answers[i].skipped })
        /\ s.timedOut = Cardinality({ i \in DOMAIN answers : answers[i].timedOut })
        /\ \A i \in DOMAIN answers : ~(answers[i].skipped /\ answers[i].timedOut)
        /\ s.total + s.skipped + s.timedOut = Len(answers)
        /\ ( /\ state = "practicing"
             /\ currentIndex = Len(problems) - 1
             /\ Len(answers) = currentIndex
             /\ \A i \in DOMAIN answers : answers[i].skipped )
           => \A d \in DisplayDraws(problems, currentIndex + 1) :
                 LET r == skip(Engine, d)
                 IN  /\ r.state = "complete"
                     /\ score(r) = [ correct |-> 0, total |-> 0, percentage |-> 0,
                                     skipped |-> Len(problems), timedOut |-> 0 ]

\* a session of two questions, both skipped, that ended
C8_Witness ==
    /\ state = "complete"
    /\ Len(problems) = 2
    /\ Len(answers) = 2
    /\ \A i \in DOMAIN answers : answers[i].skipped
    /\ score(Engine).skipped = 2
    /\ score(Engine).total = 0

\* the grading call that returned r appended one record, moved the state
\* from practicing to answered and emitted stateChange, whose listeners see
\* the record in the log and the state answered, and then one result event
GradedBy(r, result) ==
    /\ ~r.threw
    /\ AppendedOne(r)
    /\ r.state = "answered"
    /\ EmittedNames(r) = << "stateChange", result >>
    /\ r.emitted[1].payload = [ from |-> "practicing", to |-> "answered" ]
    /\ r.emitted[1].seen.state = "answered"
    /\ r.emitted[1].seen.nAnswers = Len(answers) + 1

\* C9: each successful grading call (one that passes the guards of its
\* method: state practicing, question not yet submitted, text not blank) on
\* a question of its format - selectOption on a multiple-choice question or
\* on the final stage of a two-stage question, submitNumeric, submitMultiSelect,
\* submitOrdering - appends exactly one record, changes the state from
\* practicing to answered and emits exactly one result event of the format;
\* the record is in the log and the state is answered when the stateChange
\* listeners run, and stateChange precedes the result event.
C9_GradingActions ==
    (state = "practicing" /\ ~answered /\ HasCurrent(Engine)) =>
        LET problem == CurrentProblem(Engine)
            type    == TypeOf(problem)
        IN  /\ type = "multiple-choice" =>
                  \A index \in SelectIndices :
                      GradedBy(selectOption(Engine, index), "optionSelected")
            /\ (type = "two-stage" /\ twoStageIndex = Len(problem.stages) - 1) =>
                  \A index \in SelectIndices :
                      GradedBy(selectOption(Engine, index), "optionSelected")
            /\ type = "numeric-input" =>
                  \A rawString \in NumericInputs :
                      Trim(rawString) # << >> =>
                          GradedBy(submitNumeric(Engine, rawString), "numericResult")
            /\ type = "multi-select" =>
                  GradedBy(submitMultiSelect(Engine), "multiSelectResult")
            /\ type = "ordering" =>
                  GradedBy(submitOrdering(Engine), "orderingResult")

\* a multi-select question just graded
C9_Witness ==
    /\ state = "answered"
    /\ Len(emitted) = 2
    /\ emitted[1].name = "stateChange"
    /\ emitted[1].seen.nAnswers = Len(answers)
    /\ emitted[2].name = "multiSelectResult"
    /\ answers[Len(answers)].shape = "multiSelect"

\* the listener invocations owed for the events evs: for each event in order,
\* the listeners registered for its name, in registration order
RECURSIVE Deliveries(_)
Deliveries(evs) ==
    IF evs = << >> THEN << >>
    ELSE LET ev  == evs[Len(evs)]
             fns == listeners[ev.name]
         IN  Deliveries(SubSeq(evs, 1, Len(evs) - 1))
               \o [ i \in 1 .. Len(fns) |-> [ fn |-> fns[i], event |-> ev ] ]

\* C10: every event a call emits is delivered, within the call, to all the
\* listeners registered for its name and to no listener of another name, in
\* registration order; off() removes the listener from its event's list (and
\* changes no other list), so no later emission invokes it.
C10_DeliveredInRegistrationOrder ==
    /\ delivered = Deliveries(emitted)
    /\ \A k \in DOMAIN delivered :
          delivered[k].fn \in Range(listeners[delivered[k].event.name])
    /\ \A event \in ListenedEvents, fn \in Fns :
          LET r == off(Engine, event, fn)
          IN  /\ fn \notin Range(r.listeners[event])
              /\ \A g \in Range(listeners[event]) \ { fn } :
                    g \in Range(r.listeners[event])
              /\ \A other \in EventNames \ { event } :
                    r.listeners[other] = listeners[other]

\* start() with g then f registered for stateChange and f for questionShow:
\* three invocations, g before f, then f for the question
C10_Witness ==
    /\ listeners["stateChange"] = << "g", "f" >>
    /\ listeners["questionShow"] = << "f" >>
    /\ Len(emitted) = 2
    /\ Len(delivered) = 3
    /\ delivered[1].fn = "g"
    /\ delivered[2].fn = "f"
    /\ delivered[3].event.name = "questionShow"

\* the first min(cap, Len(drawn)) elements of drawn, all of them when cap is 0
Capped(drawn, cap) ==
    SubSeq(drawn, 1, IF cap > 0 /\ cap < Len(drawn) THEN cap ELSE Len(drawn))

\* C11: retry(), after a load of a non-empty pool, re-draws the question
\* sequence from the full pool of that load, re-applies the stored cap
\* (min(cap, drawn) questions, all of them when the cap is 0), empties the
\* answer log, sets the index to 0 and enters practicing directly, emitting
\* questionShow for index 0 and never passing through idle.
C11_RetryRedrawsFromFullPool ==
    allProblems # << >> =>
        \A drawn \in ShuffleOutcomes[typeWeights, allProblems, problemTracking] :
            \A d \in DisplayDraws(drawn, 0) :
                LET r == retry(Engine, drawn, d)
                IN  /\ r.problems = Capped(drawn, maxProblems)
                    /\ r.allProblems = allProblems
                    /\ r.maxProblems = maxProblems
                    /\ r.answers = << >>
                    /\ r.currentIndex = 0
                    /\ r.state = "practicing"
                    /\ \E k \in DOMAIN r.emitted :
                          /\ r.emitted[k].name = "questionShow"
                          /\ r.emitted[k].payload.index = 0
                          /\ r.emitted[k].payload.problem = r.problems[1]
                    /\ \A k \in DOMAIN r.emitted :
                          /\ r.emitted[k].seen.state # "idle"
                          /\ r.emitted[k].name = "stateChange"
                                => r.emitted[k].payload.to = "practicing"

\* the engine as the call that returned r left it, before the next call
Returned(r) == [ r EXCEPT !.emitted = << >>, !.delivered = << >>, !.threw = FALSE ]

\* C12: reset() from any state leaves the engine in idle with an empty
\* question sequence, an empty full pool, cap 0, index 0, an empty answer
\* log, an empty context and no tracking; afterwards the problem getter
\* returns null, start() is a no-op and the session summary reports an empty
\* context and empty results.
C12_ResetClearsEverything ==
    LET r == reset(Engine)
        q == Returned(r)
    IN  /\ ~r.threw
        /\ r.state = "idle"
        /\ r.problems = << >>
        /\ r.allProblems = << >>
        /\ r.maxProblems = 0
        /\ r.currentIndex = 0
        /\ r.answers = << >>
        /\ r.context = NoContext
        /\ r.problemTracking = NoTracking
        /\ problemGetter(q) = Null
        /\ \A d \in DisplayDraws(q.problems, 0) : start(q, d) = q
        /\ ~getSessionSummary(q).threw
        /\ getSessionSummary(q).value.context = NoContext
        /\ getSessionSummary(q).value.results = << >>
        /\ getSessionSummary(q).value.score.total = 0

\* reset() was called in answered, on a loaded session with a graded
\* question: the engine is idle and everything the load stored is gone
C12_Witness ==
    /\ state = "idle"
    /\ Len(emitted) = 1
    /\ emitted[1].name = "stateChange"
    /\ emitted[1].payload = [ from |-> "answered", to |-> "idle" ]
    /\ emitted[1].seen.nAnswers = 0
    /\ problems = << >>
    /\ allProblems = << >>
    /\ answers = << >>
    /\ context = NoContext
    /\ problemTracking = NoTracking

\* restoreSession(getSnapshot()) followed by resume(), on the engine the
\* snapshot was taken from or on one that was reset, gives r: the question
\* sequence, the answer log, the context, the cap and the score are those of
\* the snapshot, and the engine is practicing on the first question without
\* a record
RoundTrip(r) ==
    /\ r.problems = problems
    /\ r.answers = answers
    /\ r.context = context
    /\ r.maxProblems = maxProblems
    /\ score(r) = score(Engine)
    /\ r.state = "practicing"
    /\ r.currentIndex = Len(answers)
    /\ problemGetter(r) = problems[Len(answers) + 1]

\* the results of resume() after restoreSession(getSnapshot())
Resumed ==
    LET snap == getSnapshot(Engine)
    IN  { resume(Returned(restoreSession(target, snap)), d) :
            target \in { Engine, Returned(reset(Engine)) },
            d \in DisplayDraws(snap.problems, Len(snap.answers)) }

\* C13 as stated: for a snapshot taken in practicing or answered,
\* restoreSession followed by resume yields the sequence, log, context, cap
\* and score of the snapshot, in state practicing on the question at index
\* equal to the number of answer records.
C13_SnapshotRoundTrip ==
    state \in { "practicing", "answered" } =>
        \A r \in Resumed : RoundTrip(r)

\* C13, amended: the same, for a snapshot that holds fewer answer records
\* than questions (with a record for every question resume() completes the
\* session instead).
C13_SnapshotRoundTripUnfinished ==
    (state \in { "practicing", "answered" } /\ Len(answers) < Len(problems)) =>
        \A r \in Resumed : RoundTrip(r)

\* a session restored and resumed after its first question was answered:
\* resume() entered practicing from idle on the second question
C13_Witness ==
    /\ state = "practicing"
    /\ Len(answers) = 1
    /\ currentIndex = 1
    /\ Len(problems) = 2
    /\ EmittedNames([ emitted |-> emitted ]) = << "stateChange", "questionShow" >>
    /\ emitted[1].payload = [ from |-> "idle", to |-> "practicing" ]
    /\ emitted[2].payload.index = 1

\* the positions of the events named name among those the call that
\* returned r emitted
EmittedAt(r, name) == { k \in DOMAIN r.emitted : r.emitted[k].name = name }

\* C14: resume() on a restored snapshot in which every question of the
\* sequence has an answer record completes the session at once: the state
\* ends as complete, the complete event is emitted exactly once with the
\* restored score, no questionShow event is emitted and no stateChange event
\* with target practicing is emitted.
C14_ResumeFullyAnsweredCompletes ==
    (state = "idle" /\ problems # << >> /\ currentIndex >= Len(problems)) =>
        \A d \in DisplayDraws(problems, currentIndex) :
            LET r == resume(Engine, d)
            IN  /\ r.state = "complete"
                /\ Cardinality(EmittedAt(r, "complete")) = 1
                /\ \A k \in EmittedAt(r, "complete") :
                      /\ r.emitted[k].payload.correct = score(Engine).correct
                      /\ r.emitted[k].payload.total = score(Engine).total
                      /\ r.emitted[k].payload.percentage = score(Engine).percentage
                /\ EmittedAt(r, "questionShow") = { }
                /\ \A k \in EmittedAt(r, "stateChange") :
                      r.emitted[k].payload.to # "practicing"

\* the outputs of the sampler for the full pool, the type weights and the
\* tracking the engine holds: one for each outcome of the draws
SamplerOutputs == ShuffleOutcomes[typeWeights, allProblems, problemTracking]

\* the weight of the type of question id
WeightOf(id) == typeWeights[TypeOf(Problem(id))]

\* C15: when some type has weight 0 while another type present in the pool
\* has positive weight, then for every outcome of the draws in
\* [0, totalWeight) no question of the zero-weight type appears in the
\* sampler's output, and none in the session's question sequence.
C15_ZeroWeightTypeNeverDrawn ==
    (\E i \in DOMAIN allProblems : WeightOf(allProblems[i]) > 0) =>
        /\ \A out \in SamplerOutputs :
              \A k \in DOMAIN out : WeightOf(out[k]) # 0
        /\ \A k \in DOMAIN problems : WeightOf(problems[k]) # 0

\* the number of positions of out that hold question id
Occurrences(out, id) == Cardinality({ k \in DOMAIN out : out[k] = id })

\* C16: the sampler draws without replacement and terminates: for every
\* pool, weights and outcome of the draws its output holds no question
\* twice and holds every question whose type has positive weight exactly
\* once; when every type present has positive weight the output is a
\* permutation of the whole pool.  (Every output is a finite sequence: the
\* loop of the model ends for every draw.)
C16_DrawsWithoutReplacement ==
    \A out \in SamplerOutputs :
        /\ \A id \in Range(out) : id \in Range(allProblems) /\ Occurrences(out, id) = 1
        /\ \A id \in Range(allProblems) : WeightOf(id) > 0 => Occurrences(out, id) = 1
        /\ (\A id \in Range(allProblems) : WeightOf(id) > 0) =>
              /\ Len(out) = Len(allProblems)
              /\ Range(out) = Range(allProblems)

\* a loaded session of three questions, two of one type, all of positive
\* weight: the sequence is a permutation of the pool that is not the pool
C16_Witness ==
    /\ typeWeights["multiple-choice"] > 0
    /\ allProblems = << "m1", "n1", "m2" >>
    /\ problems = << "m2", "n1", "m1" >>
    /\ maxProblems = 0

\* kept is the first min(cap, n) elements of the output out of length n when
\* cap > 0, and all of out when cap = 0
IsCappedPrefix(kept, out, cap) ==
    /\ Len(kept) = (IF cap = 0 \/ Len(out) < cap THEN Len(out) ELSE cap)
    /\ \A k \in DOMAIN kept : kept[k] = out[k]

OnNumeric ==
    /\ state = "practicing"
    /\ ~answered
    /\ HasCurrent(Engine)
    /\ TypeOf(CurrentProblem(Engine)) = "numeric-input"

\* the tolerance of the numeric question p, Null when p specifies none
ToleranceOf(p) ==
    IF "tolerance" \in DOMAIN p THEN p.tolerance
    ELSE [ kind |-> Null, n |-> 0, d |-> 1 ]

\* |u - t| / |t| <= fn / fd, for numbers u and t with t # 0
WithinFraction(u, t, fn, fd) ==
    Abs(u.n * t.d - t.n * u.d) * fd <= fn * Abs(t.n) * u.d

\* the number submitNumeric(rawString) parses
Parsed(rawString) == parseNumericInput(Trim(rawString))

\* submitNumeric(rawString) appends one record, which holds the parsed value
\* and the given grade
GradedAs(rawString, correct) ==
    LET r == submitNumeric(Engine, rawString)
    IN  /\ AppendedOne(r)
        /\ Appended(r).userValue = Parsed(rawString)
        /\ Appended(r).correct = correct
        /\ r.state = "answered"

\* C18: for a numeric question with a nonzero target of either sign and a
\* tolerance fraction f a parsed answer is graded correct iff
\* |user - target| / |target| <= f (equality accepted); when the question
\* specifies no tolerance the same holds with f = 0.5.
C18_FractionTolerance ==
    OnNumeric =>
        LET t   == CurrentProblem(Engine).answer
            tol == ToleranceOf(CurrentProblem(Engine))
            fn  == IF tol.kind = Null THEN 1 ELSE tol.n
            fd  == IF tol.kind = Null THEN 2 ELSE tol.d
        IN  (t.n # 0 /\ tol.kind \in { "fraction", Null }) =>
                \A rawString \in GradedInputs :
                    ~IsNaN(Parsed(rawString)) =>
                        GradedAs(rawString, WithinFraction(Parsed(rawString), t, fn, fd))

\* u and t, both nonzero, have the same sign and 0.1 <= |u| / |t| <= 10
SameSignWithinDecade(u, t) ==
    /\ u.n * t.n > 0
    /\ Abs(t.n) * u.d <= 10 * Abs(u.n) * t.d
    /\ Abs(u.n) * t.d <= 10 * Abs(t.n) * u.d

\* C19: under the order-of-magnitude tolerance with a nonzero target an
\* answer is graded correct iff the ratio user / target lies in [0.1, 10]:
\* the ratios 0.1 and 10 are accepted, and an answer whose sign differs
\* from the target's (or that is 0, or not a number) is rejected.
C19_OrderOfMagnitude ==
    OnNumeric =>
        LET t   == CurrentProblem(Engine).answer
            tol == ToleranceOf(CurrentProblem(Engine))
        IN  (t.n # 0 /\ tol.kind = "order-of-magnitude") =>
                \A rawString \in GradedInputs :
                    LET u == Parsed(rawString)
                    IN  GradedAs(rawString, ~IsNaN(u) /\ SameSignWithinDecade(u, t))

\* the order-of-magnitude question with target 1000 answered 100 (ratio
\* exactly 0.1): the record is correct
C19_Witness ==
    /\ state = "answered"
    /\ Len(answers) = 1
    /\ answers[1].problemId = "n4"
    /\ answers[1].userValue = Num(100, 1)
    /\ answers[1].correctValue = Num(1000, 1)
    /\ answers[1].correct

\* C20: when the target of a numeric question is exactly 0 the answer is
\* graded correct iff the parsed value is exactly 0, whatever the tolerance
\* (exact, order-of-magnitude, a fraction, or none): the grade does not come
\* from a division by the target.
C20_ZeroTarget ==
    OnNumeric =>
        LET t == CurrentProblem(Engine).answer
        IN  (~IsNaN(t) /\ t.n = 0) =>
                \A rawString \in GradedInputs :
                    LET u == Parsed(rawString)
                    IN  GradedAs(rawString, ~IsNaN(u) /\ u.n = 0)

\* the question with target 0 and the order-of-magnitude tolerance answered
\* "0" (or "-0"): the record is correct
C20_Witness ==
    /\ state = "answered"
    /\ Len(answers) = 1
    /\ answers[1].problemId = "n7"
    /\ answers[1].correctValue = Num(0, 1)
    /\ answers[1].userValue = Num(0, 1)
    /\ answers[1].correct
    /\ \E k \in DOMAIN emitted : emitted[k].name = "numericResult"

\* rawString is empty or holds only white space
Blank(rawString) == \A k \in DOMAIN rawString : IsSpace(rawString[k])

\* C21: submitNumeric in practicing tells blank input from malformed input:
\* empty or whitespace-only text is a no-op (no record, no event, state
\* practicing, the question can still be answered), and non-blank text that
\* does not parse to a number is graded: it appends one record with
\* correct = false and moves the state to answered.
C21_BlankVersusMalformed ==
    state = "practicing" =>
        \A rawString \in NumericInputs :
            LET r == submitNumeric(Engine, rawString)
            IN  IF Blank(rawString)
                THEN /\ Untouched(r)
                     /\ r.answered = answered
                     /\ \A again \in NumericInputs :
                           (~Blank(again) /\ ~IsNaN(Parsed(again))) =>
                               AppendedOne(submitNumeric(Returned(r), again))
                ELSE IsNaN(Parsed(rawString)) =>
                     /\ AppendedOne(r)
                     /\ ~Appended(r).correct
                     /\ r.state = "answered"

\* a question of the given type is being shown
OnType(type) ==
    /\ state = "practicing"
    /\ HasCurrent(Engine)
    /\ TypeOf(CurrentProblem(Engine)) = type

\* C22: submitOrdering on an ordering question records correct = true iff
\* the working order at submission equals the stored correct permutation
\* position by position, and the record's userOrder is that working order.
C22_OrderingGrade ==
    OnType("ordering") =>
        LET r       == submitOrdering(Engine)
            correct == CurrentProblem(Engine).correctOrder
        IN  /\ Len(orderingOrder) = Len(correct)
            /\ ~answered => AppendedOne(r)
            /\ r.answers # answers =>
                  /\ AppendedOne(r)
                  /\ Appended(r).userOrder = orderingOrder
                  /\ Appended(r).correct <=> (orderingOrder = correct)
                  /\ r.state = "answered"

\* the ordering question with correct order [0, 1, 2] submitted with the
\* working order [2, 1, 0]: the record is incorrect and holds [2, 1, 0]
C22_Witness ==
    /\ state = "answered"
    /\ answers # << >>
    /\ answers[Len(answers)].shape = "ordering"
    /\ answers[Len(answers)].userOrder = << 2, 1, 0 >>
    /\ ~answers[Len(answers)].correct
    /\ EmittedNames([ emitted |-> emitted ]) = << "stateChange", "orderingResult" >>

\* C23: submitMultiSelect records correct = true iff the set of indices
\* toggled on equals the set of correct indices, whatever the order of the
\* toggles; a missing correct index and an extra selected index both make
\* the answer incorrect.
C23_MultiSelectGrade ==
    OnType("multi-select") =>
        LET r        == submitMultiSelect(Engine)
            toggled  == Range(multiSelectSelected)
            expected == Range(CurrentProblem(Engine).correctIndices)
        IN  /\ Cardinality(toggled) = Len(multiSelectSelected)
            /\ ~answered => AppendedOne(r)
            /\ r.answers # answers =>
                  /\ AppendedOne(r)
                  /\ Range(Appended(r).indices) = toggled
                  /\ Appended(r).correct <=> (toggled = expected)
                  /\ (expected \ toggled # { }) => ~Appended(r).correct
                  /\ (toggled \ expected # { }) => ~Appended(r).correct
                  /\ r.state = "answered"

\* the multi-select question with correct indices [0, 2] submitted after 2
\* was toggled on before 0: the record is correct
C23_Witness ==
    /\ state = "answered"
    /\ multiSelectSelected = << 2, 0 >>
    /\ answers # << >>
    /\ answers[Len(answers)].shape = "multiSelect"
    /\ answers[Len(answers)].indices = << 0, 2 >>
    /\ answers[Len(answers)].correct

\* C24: moveOrderingItem(from, to) with from or to outside [0, length - 1]
\* of the working order is ignored: the working order is unchanged and no
\* orderingUpdate event is emitted; with both in range it removes the
\* element at position from, re-inserts it at position to and emits exactly
\* one orderingUpdate event carrying the new order.  (While the question
\* shown is open: state practicing, no answer yet.)
C24_MoveOrderingItem ==
    (state = "practicing" /\ ~answered) =>
        \A fromIndex \in MovePositions, toIndex \in MovePositions :
            LET r       == moveOrderingItem(Engine, fromIndex, toIndex)
                InRange == 0 .. (Len(orderingOrder) - 1)
            IN  IF fromIndex \in InRange /\ toIndex \in InRange
                THEN /\ Len(r.orderingOrder) = Len(orderingOrder)
                     /\ r.orderingOrder[toIndex + 1] = orderingOrder[fromIndex + 1]
                     /\ RemoveAt(r.orderingOrder, toIndex)
                          = RemoveAt(orderingOrder, fromIndex)
                     /\ EmittedNames(r) = << "orderingUpdate" >>
                     /\ r.emitted[1].payload.order = r.orderingOrder
                     /\ r.state = "practicing" /\ r.answers = answers
                ELSE /\ r.orderingOrder = orderingOrder
                     /\ Untouched(r)

\* an ordering question on which an item was moved: one orderingUpdate event
\* carries the working order
C24_Witness ==
    /\ state = "practicing"
    /\ Len(orderingOrder) = 3
    /\ Len(emitted) = 1
    /\ emitted[1].name = "orderingUpdate"
    /\ emitted[1].payload.order = orderingOrder

\* C25: no public operation throws: in every state, whatever the format of
\* the current question, each call completes its transition or is a no-op
\* (the call that led to the state did not throw).
C25_NoPublicOperationThrows == ~threw

\* C26: getSessionSummary() is callable in every state, changes no engine
\* state and emits no event; two calls in the same state return equal
\* content; and changing in place anything reachable from a returned summary
\* (the results list, a result's userAnswer, correctAnswer or tags, the
\* context, a breakdown entry) changes neither the engine's questions and
\* answers nor what a later call returns.
C26_SummaryIsDetached ==
    LET first == getSessionSummary(Engine)
    IN  /\ ~first.threw
        /\ getSessionSummary(Returned(Engine)) = first
        /\ \A part \in SummaryParts, i \in DOMAIN first.value.results :
              LET after == mutateSummary(Engine, first.value, part, i, NewTag)
              IN  /\ after.problems = problems
                  /\ after.allProblems = allProblems
                  /\ after.answers = answers
                  /\ after.tags = tags
                  /\ getSessionSummary(after) = first

\* the engine after the caller changed, in one of the ways of the actions,
\* the array or the context object it gave loadProblems
CallerMutations ==
    { callerPush(Engine, NewQuestion), callerClear(Engine),
      callerSetContext(Engine, NewTitle) }

\* C27: after loadProblems(questions, cap, context), the caller adding or
\* removing elements of its array, or changing its context object, changes
\* neither the session's question sequence, nor the pool a later retry draws
\* from (so a retry gives the same session), nor the context the summary
\* reports.
C27_CallerMutationIsolated ==
    \A r \in CallerMutations :
        /\ r.problems = problems
        /\ r.allProblems = allProblems
        /\ r.context = context
        /\ getSessionSummary(r).value = getSessionSummary(Engine).value
        /\ allProblems # << >> =>
              \A drawn \in ShuffleOutcomes[typeWeights, allProblems, problemTracking] :
                  \A d \in DisplayDraws(drawn, 0) :
                      LET again == retry(r, drawn, d)
                      IN  /\ again.problems = retry(Engine, drawn, d).problems
                          /\ again.allProblems = allProblems

\* a session is running on a pool and a context that the caller's own array
\* and object no longer equal
C27_Witness ==
    /\ state = "practicing"
    /\ allProblems # << >>
    /\ caller.problems # allProblems
    /\ caller.context # context
    /\ getSessionSummary(Engine).value.context = UnitContext

\* the graded records of the answer log: neither skipped nor timed out
GradedPositions ==
    { i \in DOMAIN answers : ~answers[i].skipped /\ ~answers[i].timedOut }

\* the type and the tags of the question record i of the answer log answers
AnsweredType(i) == TypeOf(Problem(answers[i].problemId))

AnsweredTags(i) ==
    LET problem == ProblemObject(Engine, answers[i].problemId)
    IN  IF "tags" \in DOMAIN problem THEN problem.tags ELSE << >>

\* the sum of a field over the entries of a breakdown by type
TypeSum(breakdown, field) ==
    LET order == << "multiple-choice", "numeric-input", "ordering",
                    "multi-select", "two-stage" >>
    IN  SumSeq([ k \in DOMAIN order |->
                   IF order[k] \in DOMAIN breakdown
                   THEN breakdown[order[k]][field] ELSE 0 ])

\* the percentage of a breakdown entry is recomputed from its counts
PercentageOf(entry) ==
    entry.percentage = IF entry.total > 0
                       THEN RoundPercent(entry.correct, entry.total) ELSE 0

\* C28: in every session summary the breakdowns count only graded answers
\* (neither skipped nor timed out).  For each type, total and correct are
\* the numbers of graded, and graded and correct, answers to questions of
\* that type, so the totals sum to score.total and the correct counts to
\* score.correct; a graded answer is counted once under every tag of its
\* question; each percentage is round(100 * correct / total), 0 when total
\* is 0.
C28_BreakdownsCountGraded ==
    LET summary == getSessionSummary(Engine).value
        byType  == summary.breakdownByType
        byTag   == summary.breakdownByTag
        Tagged(i, t) == { k \in DOMAIN AnsweredTags(i) : AnsweredTags(i)[k] = t }
    IN  ~getSessionSummary(Engine).threw =>
        /\ DOMAIN byType = { AnsweredType(i) : i \in GradedPositions }
        /\ \A t \in DOMAIN byType :
              /\ byType[t].total =
                    Cardinality({ i \in GradedPositions : AnsweredType(i) = t })
              /\ byType[t].correct =
                    Cardinality({ i \in GradedPositions :
                                    AnsweredType(i) = t /\ answers[i].correct })
              /\ PercentageOf(byType[t])
        /\ TypeSum(byType, "total") = summary.score.total
        /\ TypeSum(byType, "correct") = summary.score.correct
        /\ DOMAIN byTag = UNION { Range(AnsweredTags(i)) : i \in GradedPositions }
        /\ \A t \in DOMAIN byTag :
              /\ byTag[t].total =
                    SumSeq([ i \in DOMAIN answers |->
                               IF i \in GradedPositions
                               THEN Cardinality(Tagged(i, t)) ELSE 0 ])
              /\ byTag[t].correct =
                    SumSeq([ i \in DOMAIN answers |->
                               IF i \in GradedPositions /\ answers[i].correct
                               THEN Cardinality(Tagged(i, t)) ELSE 0 ])
              /\ PercentageOf(byTag[t])

\* the positions of the history whose timestamp no earlier position has
FirstOfTimestamp ==
    { i \in DOMAIN sessions :
        \A j \in 1 .. i - 1 : sessions[j].timestamp # sessions[i].timestamp }

\* C29: deduplicateSessions keeps, in their original order, exactly the
\* first summary of each distinct timestamp and drops every later summary of
\* a timestamp already seen; it is idempotent; and for every valid summary s
\* the statistics of deduplicateSessions([s, s]) are those of [s].
C29_DeduplicateKeepsFirst ==
    LET kept   == deduplicateSessions(sessions)
        Nth(k) == CHOOSE i \in FirstOfTimestamp :
                      Cardinality({ j \in FirstOfTimestamp : j <= i }) = k
    IN  /\ Len(kept) = Cardinality(FirstOfTimestamp)
        /\ \A k \in DOMAIN kept : kept[k] = sessions[Nth(k)]
        /\ deduplicateSessions(kept) = kept
        /\ \A s \in StoredSummaries :
              computeAggregateStats(deduplicateSessions(<< s, s >>))
                 = computeAggregateStats(<< s >>)

\* the history holds two different summaries of one timestamp with a summary
\* of another timestamp between them
C29_Witness ==
    /\ Len(sessions) = 3
    /\ sessions[1].timestamp = sessions[3].timestamp
    /\ sessions[1] # sessions[3]
    /\ sessions[2].timestamp # sessions[1].timestamp
    /\ deduplicateSessions(sessions) = << sessions[1], sessions[2] >>

\* the breakdown of a summary under a name, empty when the summary lacks it
BreakdownOf(s, name) == IF name \in s.has THEN s[name] ELSE NoBreakdown

\* a field of an entry of a breakdown, 0 when the breakdown has no such key
CountOf(breakdown, k, field) ==
    IF k \in DOMAIN breakdown THEN breakdown[k][field] ELSE 0

\* the merged breakdown `merged` of the history is that of the history
\* without its last summary, `before`, with the last summary's entries added
AddsLast(merged, before, name) ==
    LET last == BreakdownOf(sessions[Len(sessions)], name)
    IN  /\ DOMAIN merged = DOMAIN before \cup DOMAIN last
        /\ \A k \in DOMAIN merged :
              /\ merged[k].correct = CountOf(before, k, "correct")
                                        + CountOf(last, k, "correct")
              /\ merged[k].total = CountOf(before, k, "total")
                                      + CountOf(last, k, "total")
              /\ PercentageOf(merged[k])

\* C30: computeAggregateStats returns totals that are the sums of the
\* summaries' score fields (a missing skipped or timedOut counting as 0) and
\* per-type and per-tag entries that are the key-wise sums of the summaries'
\* breakdown entries with the percentage recomputed from the summed counts
\* (0 when the summed total is 0); a summary lacking breakdownByType,
\* breakdownByTag or context adds nothing to the corresponding map.  Stated
\* by induction on the history: nothing for the empty one, and the last
\* summary's numbers added to those of the summaries before it.
C30_AggregateSums ==
    LET stats == computeAggregateStats(sessions)
    IN  IF sessions = << >>
        THEN /\ stats.totalAnswered = 0 /\ stats.totalCorrect = 0
             /\ stats.totalSkipped = 0 /\ stats.totalTimedOut = 0
             /\ DOMAIN stats.byType = { } /\ DOMAIN stats.byTag = { }
             /\ DOMAIN stats.byUnit = { }
        ELSE LET last   == sessions[Len(sessions)]
                 before == computeAggregateStats(SubSeq(sessions, 1, Len(sessions) - 1))
             IN  /\ stats.totalAnswered = before.totalAnswered + last.score.total
                 /\ stats.totalCorrect = before.totalCorrect + last.score.correct
                 /\ stats.totalSkipped = before.totalSkipped
                       + (IF "skipped" \in last.has THEN last.score.skipped ELSE 0)
                 /\ stats.totalTimedOut = before.totalTimedOut
                       + (IF "timedOut" \in last.has THEN last.score.timedOut ELSE 0)
                 /\ AddsLast(stats.byType, before.byType, "breakdownByType")
                 /\ AddsLast(stats.byTag, before.byTag, "breakdownByTag")
                 /\ "context" \notin last.has => stats.byUnit = before.byUnit

\* the checks the object under import fails: a timestamp that is a date, a
\* score with numeric correct and total, results that are an array
FailedChecks ==
    { check \in { "timestamp", "score", "results" } :
        CASE check = "timestamp" -> imported.timestamp \notin { Sooner, SoonerMs, Later }
          [] check = "score" -> ~(/\ imported.score.kind = "object"
                                  /\ imported.score.correct = "number"
                                  /\ imported.score.total = "number")
          [] check = "results" -> imported.results # "array" }

\* the error validateSessionSummary reports for a failed check
ErrorOf(check) ==
    CASE check = "timestamp" -> "Missing or invalid timestamp"
      [] check = "score" -> "Missing or invalid score (needs correct and total)"
      [] check = "results" -> "Missing results array"

GradedFor(sessionSummary, id) ==
    { i \in DOMAIN sessionSummary.results :
        /\ sessionSummary.results[i].id = id
        /\ ~sessionSummary.results[i].skipped
        /\ ~sessionSummary.results[i].timedOut }

\* C32: computeProficiency returns a value in [0, 1] for every entry and
\* every now, also when lastSeen is later than now, and 0.5 for an absent
\* or never-seen entry
C32_ProficiencyInUnitInterval ==
    \A id \in TrackedIds \cup { "o1" } : \A now \in { Sooner, Later } :
        LET proficiency == ProficiencyAt(trackingMap, id, now)
        IN  /\ ~proficiency.nan
            /\ 0 <= proficiency.n
            /\ proficiency.n <= proficiency.d
            /\ id \notin DOMAIN trackingMap => proficiency = Num(1, 2)

C34_ActiveStateHasQuestion ==
    state \in { "practicing", "answered" } =>
        /\ Len(problems) > 0
        /\ 0 <= currentIndex
        /\ currentIndex < Len(problems)
        /\ problemGetter(Engine) = problems[currentIndex + 1]

\* the results of every grading operation that belongs to a format other
\* than the current question's, applied to the engine as it stands
CrossFormatResults ==
    IF ~HasCurrent(Engine) THEN { }
    ELSE LET type == TypeOf(CurrentProblem(Engine))
         IN  (IF type /= "ordering" THEN { submitOrdering(Engine) } ELSE { })
             \cup (IF type /= "numeric-input"
                   THEN { submitNumeric(Engine, rawString) : rawString \in NumericInputs }
                   ELSE { })
             \cup (IF type /= "multi-select" THEN { submitMultiSelect(Engine) } ELSE { })
             \cup (IF type \notin { "multiple-choice", "two-stage" }
                   THEN { selectOption(Engine, index) : index \in SelectIndices }
                   ELSE { })

\* C35: a grading operation of another format than the current question's
\* never appends a record graded correct and never raises the score's
\* correct count
C35_CrossFormatNeverCorrect ==
    \A result \in CrossFormatResults :
        /\ \A i \in DOMAIN result.answers :
               i > Len(answers) => ~result.answers[i].correct
        /\ score(result).correct <= score(Engine).correct

\* the results of start, next, skip, timeout, retry and resume, applied to
\* the engine as it stands, that showed a question
ShownResults ==
    { r \in { start(Engine, d) : d \in DisplayDraws(problems, 0) }
            \cup { next(Engine, d) : d \in DisplayDraws(problems, currentIndex + 1) }
            \cup { skip(Engine, d) : d \in DisplayDraws(problems, currentIndex + 1) }
            \cup { timeout(Engine, d) : d \in DisplayDraws(problems, currentIndex + 1) }
            \cup UNION { { retry(Engine, drawn, d) : d \in DisplayDraws(drawn, 0) } :
                         drawn \in ShuffleOutcomes[typeWeights, allProblems, problemTracking] }
            \cup { resume(Engine, d) : d \in DisplayDraws(problems, currentIndex) } :
        /\ ~r.threw
        /\ r.emitted # << >>
        /\ r.emitted[Len(r.emitted)].name = "questionShow" }

\* C36: whenever start, next, skip, timeout, retry or resume shows a
\* question, the multi-select selection is empty, the two-stage stage index
\* is 0 with no recorded stage outcome, and the answered flag is false
C36_TransientStateReset ==
    \A r \in ShownResults :
        /\ r.multiSelectSelected = << >>
        /\ r.twoStageIndex = 0
        /\ r.twoStageAnswers = << >>
        /\ ~r.answered

\* a question with toggled options or a passed first stage is skipped or
\* times out, and the next question is shown
C36_Witness ==
    /\ state = "practicing"
    /\ multiSelectSelected # << >> \/ (twoStageIndex > 0 /\ twoStageAnswers # << >>)
    /\ \E d \in DisplayDraws(problems, currentIndex + 1) :
           /\ skip(Engine, d) \in ShownResults
           /\ timeout(Engine, d) \in ShownResults

\* order holds each of 0 .. n-1 once
IsPermutation(order, n) == Len(order) = n /\ Range(order) = 0 .. (n - 1)

\* C37: while an ordering question of n items is current the working order
\* is a permutation of 0 .. n-1; when the question is shown it is the order
\* emitted with questionShow; the userOrder recorded for an ordering
\* question is a permutation of its item indices
C37_WorkingOrderIsPermutation ==
    /\ ( /\ state \in { "practicing", "answered" }
         /\ HasCurrent(Engine)
         /\ TypeOf(CurrentProblem(Engine)) = "ordering" )
       => IsPermutation(orderingOrder, Len(CurrentProblem(Engine).items))
    /\ \A r \in ShownResults :
           TypeOf(CurrentProblem(r)) = "ordering"
           => /\ r.emitted[Len(r.emitted)].payload.shuffledItems = r.orderingOrder
              /\ IsPermutation(r.orderingOrder, Len(CurrentProblem(r).items))
    /\ \A i \in DOMAIN answers :
           ( /\ answers[i].shape = "ordering"
             /\ TypeOf(Problem(answers[i].problemId)) = "ordering" )
           => IsPermutation(answers[i].userOrder,
                            Len(Problem(answers[i].problemId).items))

\* an ordering question was shown, and answered with a working order that
\* is not the correct one
C37_Witness ==
    /\ state = "answered"
    /\ HasCurrent(Engine)
    /\ TypeOf(CurrentProblem(Engine)) = "ordering"
    /\ answers # << >>
    /\ answers[Len(answers)].shape = "ordering"
    /\ answers[Len(answers)].userOrder = << 2, 0, 1 >>
    /\ orderingOrder = << 2, 0, 1 >>

\* C38: start() with a non-empty question sequence, in any state (practicing,
\* answered, complete, or idle after restoreSession), keeps the sequence and
\* its order, empties the answer log, sets the index to 0, enters practicing
\* and emits questionShow for index 0
C38_StartRestartsSameSequence ==
    Len(problems) > 0 =>
        \A d \in DisplayDraws(problems, 0) :
            LET r == start(Engine, d)
            IN  /\ ~r.threw
                /\ r.problems = problems
                /\ r.answers = << >>
                /\ r.currentIndex = 0
                /\ r.state = "practicing"
                /\ r.emitted # << >>
                /\ r.emitted[Len(r.emitted)].name = "questionShow"
                /\ r.emitted[Len(r.emitted)].payload.index = 0
                /\ r.emitted[Len(r.emitted)].payload.problem = problems[1]

\* idle after restoreSession, with restored answers and the index past the
\* first question
C38_Witness ==
    /\ state = "idle"
    /\ Len(problems) = 2
    /\ Len(answers) = 1
    /\ currentIndex = 1
    /\ \E d \in DisplayDraws(problems, 0) : start(Engine, d).answers = << >>

\* C39: in a session started from idle and driven by answers, skips,
\* timeouts and next, one record is appended per question and no more: the
\* log never outgrows the sequence, it holds one record per position passed
\* while practicing and one more once the current question is answered, and
\* the session is complete with exactly N records
C39_SessionTerminates ==
    /\ Len(answers) <= Len(problems)
    /\ state = "practicing" => Len(answers) = currentIndex
    /\ state = "answered" => Len(answers) = currentIndex + 1
    /\ state = "complete" => Len(answers) = Len(problems)

\* one record per position passed, each for the question at its position,
\* and the index inside the sequence while a question is worked on
Consistent(e) ==
    /\ Len(e.answers) <= Len(e.problems)
    /\ \A i \in DOMAIN e.answers : e.answers[i].problemId = e.problems[i]
    /\ e.state \in { "practicing", "answered" } => HasCurrent(e)

\* how many times the call emitted "complete"
Completes(e) == Cardinality({ k \in DOMAIN e.emitted : e.emitted[k].name = "complete" })

\* the results of the calls during which a listener calls back into the
\* engine, applied to the engine as it stands
ReentrantResults ==
    (IF Calls(Engine, "skip")
     THEN { skipReentrant(Engine, d, dNested) :
              d \in DisplayDraws(problems, currentIndex + 1),
              dNested \in DisplayDraws(problems, currentIndex + 1) }
     ELSE { })
    \cup (IF Calls(Engine, "timeout")
          THEN { timeoutReentrant(Engine, d, dNested) :
                   d \in DisplayDraws(problems, currentIndex + 1),
                   dNested \in DisplayDraws(problems, currentIndex + 1) }
          ELSE { })
    \cup (IF Calls(Engine, "stateChange")
          THEN { selectOptionReentrant(Engine, index, dNested) :
                   index \in SelectIndices,
                   dNested \in DisplayDraws(problems, currentIndex + 1) }
          ELSE { })

NestedTwiceNames(name, left) ==
    CASE left = 0 -> << name, name, "stateChange", "complete", "complete" >>
      [] left = 1 -> << name, name, "questionShow", "stateChange", "complete" >>
      [] OTHER    -> << name, name, "questionShow", "questionShow" >>

=============================================================================
